---- MODULE Spec2Model ----
(***************************************************************************)
(* The container lifecycle supervisor of vertex: InstanceService           *)
(* (Delete / Start / Stop and the two start routines it dispatches to),    *)
(* the Docker runner (RunnerDockerRepository) with its wait task, the      *)
(* process runner with its wait goroutine, and Instance.SetStatus with     *)
(* its listener table.                                                     *)
(*                                                                         *)
(* Commands are executed by HTTP handler threads (Callers).  None of the   *)
(* commands takes a lock, so a command is split into one action per        *)
(* suspension point (a Docker API call, an exec, a file-system call) and   *)
(* the actions of different callers interleave.                            *)
(***************************************************************************)
EXTENDS Integers, Sequences, FiniteSets, TLC

\* ------------------------------------------------------------------ bounds
MaxCmds      == 3       \* Start, Stop and Delete commands issued in a run
MaxEventCmds == 2       \* the same, in the runs that listeners take part in

UUIDs       == {1}      \* uuids Install can hand out
Callers     == {1, 2}   \* concurrent HTTP handler threads
ListenerIds == {1}      \* listener channels that can be registered

MaxIssues   == 3        \* SetStatus calls issued in a run of the event dispatch
Subscribers == {1, 2}   \* SSE connections in a run of the event dispatch
\* the tasks that call SetStatus: a command's handler thread and a wait task
Tasks       == {"cmd", "wait"}

MaxPushes   == 3        \* lines pushed to the log repository in a run
MaxDays     == 1        \* midnights that pass in a run
MaxOpens    == 2        \* Open calls made through the repository's interface
MaxLines    == 4        \* lines of the authorized-keys file

\* ------------------------------------------------------- program constants
\* repository/instance_logs_fs.go: the size of a logger's buffer
bufferSize == 50

InstanceStatusOff      == "off"
InstanceStatusBuilding == "building"
InstanceStatusStarting == "starting"
InstanceStatusRunning  == "running"
InstanceStatusError    == "error"
InstanceEventStatusChange == "status_change"

ErrContainerStillRunning  == "the container is still running"
ErrInstanceAlreadyRunning == "the instance is already running"
ErrInstanceNotRunning     == "the instance is not running"
ErrContainerNotFound      == "container not found"
ErrExecutableNotFound     == "the executable was not found at path"
ErrProtocolNotSupported   == "this protocol is not supported"
\* any other error of a Docker API call, of the file system or of exec
ErrRunner                 == "runner error"

LogKindOut       == "out"
LogKindErr       == "err"
LogKindVertexOut == "vertex_out"
LogKindVertexErr == "vertex_err"

\* The start/stop routine that serves an instance.  A Docker-backed instance
\* (UseDocker) is served either by InstanceService.startWithDocker or by the
\* runner RunnerDockerRepository.Start; a process-backed one by startManually.
BackendService == "docker_service"
BackendRunner  == "docker_runner"
BackendManual  == "manual"
Backends == {BackendService, BackendRunner, BackendManual}

VARIABLES
    registry,      \* uuids registered in the instance repository
    dirs,          \* uuids whose instance directory exists
    backend,       \* uuid -> backend ("none" before Install)
    files,         \* uuid -> executables present in the instance directory
    status,        \* uuid -> Instance.Status
    docker,        \* uuid -> state of the Docker container VERTEX_CONTAINER_<uuid>
    Cmd,           \* uuid -> Instance.Cmd: 0 is nil, otherwise an index of runs
    Listeners,     \* uuid -> registered listener ids (Instance.Listeners)
    lstate,        \* listener id -> "new" | "registered" | "unregistered"
    regAt,         \* listener id -> number of status changes before it registered
    received,      \* listener id -> events taken from its channel, in order
    logs,          \* uuid -> log lines written with WriteLogLine, in order
    runs,          \* launched workloads and their wait tasks, in launch order
    pc,            \* caller -> position inside the command it executes
    arg,           \* caller -> uuid the command is about
    budget,        \* number of commands that can still be issued
    hist,          \* uuid -> history of command calls and returns
    statusTrace,   \* uuid -> every status given to SetStatus, in order
    created,       \* uuid -> number of Docker containers created under its name
    lastInstall,   \* the source kind and the result of the last Install call
    \* -- the listener table of one Instance, with its channels (event dispatch)
    table,         \* listener ids in the map Instance.Listeners
    conn,          \* listener id -> position of the SSE handler that owns it
    since,         \* listener id -> number of status changes before it registered
    iStatus,       \* Instance.Status
    issued,        \* the statuses assigned to Instance.Status, in order
    disp,          \* task -> the SetStatus call it is executing
    sendq,         \* listener id -> tasks blocked in a send on its channel, in order
    got,           \* listener id -> issue numbers of the events it received, in order
    crashed,       \* the process was terminated by the Go runtime
    emitted,       \* listener id -> the SSE events written to its client, in order
    \* -- the log repository (InstanceLogsFSRepository)
    loggers,       \* uuid -> its InstanceLogger in the map r.loggers
    handles,       \* every os.File opened by Open, in order of opening
    disk,          \* <<uuid, day>> -> lines written to logs_<day>.txt of the uuid
    day,           \* the local date (time.Now), as a number of days
    pushed,        \* uuid -> every line pushed to a logger of the uuid, in order
    cron,          \* the rotation job: the loggers it still has to rotate
    pushBudget,    \* number of lines that can still be pushed
    pushOp,        \* the last Push call: its id and the error it logged, if any
    \* -- the settings of the containers (ContainerSettingsService)
    ContainerSettings, \* uuid -> Container.ContainerSettings, in memory
    settingsFile,  \* uuid -> its .vertex/settings.json
    saved,         \* uuid -> the settings last written to its settings.json
    settingsOp,    \* the last call of the settings service and its result
    \* -- the startup of the process (main, Router.Start)
    mainPc,        \* position of the main goroutine
    loaderPc,      \* position of the goroutine that loads and starts the instances
    signalPc,      \* position of the goroutine that waits for the interrupt signal
    deps,          \* how each dependency was set up so far, in order
    phases,        \* the startup phases that began or completed, in order
    \* -- the update check of one Docker-backed instance (CheckForUpdates)
    method,        \* Methods.Docker of its service: "image" or "dockerfile"
    remoteImage,   \* id of the image the registry serves under the image name
    localImage,    \* id of the image the Docker host has under that name, 0 if none
    containerImage,\* ImageID of the instance's Docker container, 0 if it has none
    Update,        \* Instance.Update
    checkOp,       \* the result of the last CheckForUpdates call
    \* -- the SSH keys of the host (SshFsAdapter)
    authorizedKeys,\* the authorized-keys file: whether it exists, and its lines
    sshKeys,       \* the keys GetAll returned, if it was the last call
    sshOp,         \* the last call of the adapter and its result
    sshCount,      \* valid keys the file began with, plus the adds, minus the removes
    \* -- the port options of a Docker container about to be created
    DockerPorts,   \* Methods.Docker.Ports: container port -> declared host port
    EnvDefinitions,\* Instance.EnvDefinitions, in order
    EnvVariables,  \* Instance.EnvVariables: name -> value
    portBindings   \* the host:container specs given to ParsePortSpecs, if computed

supVars == <<registry, dirs, backend, files, status, docker, Cmd, Listeners, lstate, regAt,
             received, logs, runs, pc, arg, budget, hist, statusTrace, created,
             lastInstall>>
busVars == <<table, conn, since, iStatus, issued, disp, sendq, got, crashed, emitted>>

logVars == <<loggers, handles, disk, day, pushed, cron, pushBudget, pushOp>>
setVars == <<ContainerSettings, settingsFile, saved, settingsOp>>

bootVars == <<mainPc, loaderPc, signalPc, deps, phases>>
updVars == <<method, remoteImage, localImage, containerImage, Update, checkOp>>
sshVars == <<authorizedKeys, sshKeys, sshOp, sshCount>>
portVars == <<DockerPorts, EnvDefinitions, EnvVariables, portBindings>>

\* the variables the supervisor's commands do not touch
otherVars == <<busVars, logVars, setVars, bootVars, updVars, sshVars, portVars>>

vars == <<supVars, otherVars>>

storeVars == <<registry, dirs, backend, files>>
lsnVars   == <<Listeners, lstate, regAt>>

\* ----------------------------------------------------------------- helpers
\* IsRunning as it would be if building and starting were forgotten
IsRunningOnlyRunning(s) == s = InstanceStatusRunning

\* IsRunning as it would be if only off counted as not running
IsRunningNotOff(s) == s # InstanceStatusOff

\* IsRunning as it would be if only error counted as not running
IsRunningNotError(s) == s # InstanceStatusError

\* types/instance.go: Instance.IsRunning
IsRunning(s) == s # InstanceStatusOff /\ s # InstanceStatusError

UseDocker(c) == backend[c] \in {BackendService, BackendRunner}

StatusChange(s) == [Name |-> InstanceEventStatusChange, Data |-> s]

LogLine(kind, msg) == [Kind |-> kind, Message |-> msg]

RECURSIVE SendAll(_, _)
SendAll(q, ss) ==
    IF ss = <<>> THEN q ELSE SendAll(Append(q, StatusChange(Head(ss))), Tail(ss))

\* Instance.SetStatus applied once per element of ss: the field is assigned and
\* every registered listener receives one status_change event per call.
SetStatusSeq(c, ss) ==
    /\ status' = IF ss = <<>> THEN status ELSE [status EXCEPT ![c] = ss[Len(ss)]]
    /\ received' = [l \in ListenerIds |->
                      IF l \in Listeners[c] THEN SendAll(received[l], ss)
                                            ELSE received[l]]
    /\ statusTrace' = [statusTrace EXCEPT ![c] = @ \o ss]

SetStatus(c, s) == SetStatusSeq(c, <<s>>)

NoStatus == UNCHANGED <<status, received, statusTrace>>

\* repo.WriteLogLine: appends the lines to the instance's logs
WriteLogLines(c, ls) == logs' = [logs EXCEPT ![c] = @ \o ls]

Called(c, op) == [op |-> op, res |-> "call"]
Returned(c, op, r) == [op |-> op, res |-> r]

\* a command returns r to its caller
Return(t, c, op, r) ==
    /\ pc' = [pc EXCEPT ![t] = "idle"]
    /\ arg' = [arg EXCEPT ![t] = 0]
    /\ hist' = [hist EXCEPT ![c] = Append(@, Returned(c, op, r))]

\* a command is called and returns r in the same step
CallReturn(t, c, op, r) ==
    /\ UNCHANGED <<pc, arg>>
    /\ budget' = budget - 1
    /\ hist' = [hist EXCEPT ![c] = @ \o <<Called(c, op), Returned(c, op, r)>>]

\* a command is called and goes on at position p
CallGoto(t, c, op, p) ==
    /\ pc' = [pc EXCEPT ![t] = p]
    /\ arg' = [arg EXCEPT ![t] = c]
    /\ budget' = budget - 1
    /\ hist' = [hist EXCEPT ![c] = Append(@, Called(c, op))]

Goto(t, p) ==
    /\ pc' = [pc EXCEPT ![t] = p]
    /\ UNCHANGED <<arg, hist>>

\* a request is served by the free handler thread with the lowest number
Free(t) == pc[t] = "idle" /\ \A u \in Callers : pc[u] = "idle" => t <= u

\* the process is up: no goroutine outside a handler has panicked (a panic in
\* a handler is recovered by the router, any other one ends the process)
Up == \A r \in DOMAIN runs : runs[r].wait # "panicked"

CanCall(t) == Up /\ Free(t) /\ budget > 0

\* the Docker workload of c stopped: its wait tasks are notified
DockerStopped(c) ==
    [r \in DOMAIN runs |->
        IF runs[r].c = c /\ runs[r].kind = "docker" /\ runs[r].state = "alive"
        THEN [runs[r] EXCEPT !.state = "exited"] ELSE runs[r]]

\* no SetStatus call in progress
NoDispatch == [st |-> "idle", ev |-> "", k |-> 0, to |-> 0, visited |-> {}, start |-> {}]

\* the listener table of a freshly instantiated Instance
BusInit ==
    /\ table = {}
    /\ conn = [l \in Subscribers |-> "new"]
    /\ since = [l \in Subscribers |-> 0]
    /\ iStatus = InstanceStatusOff
    /\ issued = <<>>
    /\ disp = [s \in Tasks |-> NoDispatch]
    /\ sendq = [l \in Subscribers |-> <<>>]
    /\ got = [l \in Subscribers |-> <<>>]
    /\ crashed = FALSE
    /\ emitted = [l \in Subscribers |-> <<>>]

\* the rotation job is not running: all are the ids it ranged over the last
\* time, err tells whether it logged an error of Open
NoRotation == [st |-> "idle", todo |-> {}, at |-> 0, all |-> {}, err |-> FALSE]

\* no Push was called yet
NoPush == [id |-> 0, logged |-> ""]

ErrLoggerNotFound == "instance logger not found"
ErrFileClosed == "file already closed"

\* an id without an entry in r.loggers
NoLogger == [present |-> FALSE, file |-> 0, buffer |-> <<>>]

Days == 0..MaxDays

\* NewInstanceLogsFSRepository: an empty map, the rotation job scheduled
LogInit ==
    /\ loggers = [c \in UUIDs |-> NoLogger]
    /\ handles = <<>>
    /\ disk = [f \in UUIDs \X Days |-> <<>>]
    /\ day = 0
    /\ pushed = [c \in UUIDs |-> <<>>]
    /\ cron = NoRotation
    /\ pushBudget = MaxPushes
    /\ pushOp = NoPush

\* the settings of a container: display_name, launch_on_startup (optional),
\* tags, version (optional), databases
DisplayNames == {"", "web"}
OptionalBools == {"null", "true", "false"}
TagSets == SUBSET {"media"}
OptionalVersions == {"null", "1.0"}
DatabaseMaps == {{}, {<<"db", 1>>}}

SettingsValues ==
    [display_name : DisplayNames, launch_on_startup : OptionalBools,
     tags : TagSets, version : OptionalVersions, databases : DatabaseMaps]

\* the zero value of types.ContainerSettings
ZeroSettings ==
    [display_name |-> "", launch_on_startup |-> "null", tags |-> {},
     version |-> "null", databases |-> {}]

\* Container.Service.Name, the name in the manifest of the service
ServiceName(c) == "service"

NoFile == [exists |-> FALSE]
NoSave == [some |-> FALSE]
NoSettingsOp == [op |-> "", id |-> 0, res |-> ""]

\* a container that was instantiated and never saved or loaded its settings
SetInit ==
    /\ ContainerSettings = [c \in UUIDs |-> ZeroSettings]
    /\ settingsFile = [c \in UUIDs |-> NoFile]
    /\ saved = [c \in UUIDs |-> NoSave]
    /\ settingsOp = NoSettingsOp

NoInstall == [source |-> "", res |-> ""]

\* image ids
ImageIds == {1, 2}

\* Instance.Update = nil
NoUpdate == [CurrentVersion |-> 0, LatestVersion |-> 0]

\* an instance of an image-based service that was just installed: the host
\* has no image and no container of it, and it was never checked for updates
UpdInit ==
    /\ method = "image"
    /\ remoteImage = 1
    /\ localImage = 0
    /\ containerImage = 0
    /\ Update = NoUpdate
    /\ checkOp = [res |-> "", seq |-> 0]

\* an instance of an image-based or Dockerfile-based service, with or without
\* a container, that was never checked for updates
UpdInitAny ==
    /\ method \in {"image", "dockerfile"}
    /\ remoteImage \in ImageIds
    /\ localImage \in {0} \cup ImageIds
    /\ containerImage \in IF localImage = 0 THEN {0} ELSE {0, localImage}
    /\ Update = NoUpdate
    /\ checkOp = [res |-> "", seq |-> 0]

\* the public keys that can be written to the file; a line that is no key is 0
KeyIds == {1, 2, 3}
InvalidLine == 0

NoSshOp == [op |-> "", res |-> ""]

\* the authorized-keys file holds two keys, one per line (SetupTest)
SshInit ==
    /\ authorizedKeys = [exists |-> TRUE, lines |-> <<1, 2>>]
    /\ sshKeys = <<>>
    /\ sshOp = NoSshOp
    /\ sshCount = 2

\* the ports, the names and the values the port options are made of
ContainerPorts == {"80", "443"}
HostPorts == {"8080", "8443"}
EnvNames == {"PORT", "ADMIN_PORT"}
EnvTypes == {"port", "string"}
EnvValues == {"9090"}

\* the port options were not computed yet
NoBindings == [done |-> FALSE, all |-> {}]

\* a service that declares one port, with a port-typed env definition for it
\* and a value chosen by the user
PortInit ==
    /\ DockerPorts = [p \in {"80"} |-> "8080"]
    /\ EnvDefinitions = <<[Name |-> "PORT", Type |-> "port", Default |-> "8080"]>>
    /\ EnvVariables = [n \in {"PORT"} |-> "9090"]
    /\ portBindings = NoBindings

\* the process was just launched: main has not run yet
BootInit ==
    /\ mainPc = "parse_args"
    /\ loaderPc = "none"
    /\ signalPc = "none"
    /\ deps = <<>>
    /\ phases = <<>>

\* -------------------------------------------------------------------- Init
\* NewInstanceService: nothing installed, b commands can be issued
SupInit(b) ==
    /\ registry = {}
    /\ dirs = {}
    /\ backend = [c \in UUIDs |-> "none"]
    /\ files = [c \in UUIDs |-> {}]
    /\ status = [c \in UUIDs |-> InstanceStatusOff]
    /\ docker = [c \in UUIDs |-> "none"]
    /\ Cmd = [c \in UUIDs |-> 0]
    /\ Listeners = [c \in UUIDs |-> {}]
    /\ lstate = [l \in ListenerIds |-> "new"]
    /\ regAt = [l \in ListenerIds |-> 0]
    /\ received = [l \in ListenerIds |-> <<>>]
    /\ logs = [c \in UUIDs |-> <<>>]
    /\ runs = <<>>
    /\ pc = [t \in Callers |-> "idle"]
    /\ arg = [t \in Callers |-> 0]
    /\ budget = b
    /\ hist = [c \in UUIDs |-> <<>>]
    /\ statusTrace = [c \in UUIDs |-> <<>>]
    /\ created = [c \in UUIDs |-> 0]
    /\ lastInstall = NoInstall

Init == SupInit(MaxCmds) /\ BusInit /\ LogInit /\ SetInit /\ BootInit /\ UpdInit /\ SshInit /\ PortInit

\* ----------------------------------------------------------------- Install
\* the prefixes of an install source; "other" is any prefix besides the three
Protocols == {"marketplace", "localstorage", "git", "other"}

\* an Install that takes every prefix
SupportedAny(proto) == TRUE

\* the prefixes Install has a branch for
Supported(proto) == proto \in {"marketplace", "localstorage", "git"}

\* what is recorded of the source of an Install call
SourceKind(proto) == IF proto = "other" THEN "other" ELSE "known"

\* InstanceService.Install: an unsupported protocol or a failed download or
\* symlink returns before anything is instantiated; otherwise the instance is
\* instantiated (registered under a fresh uuid) and its metadata saved.
Install(t) ==
    /\ Free(t)
    /\ \E c \in UUIDs :
        /\ backend[c] = "none"
        /\ \A d \in UUIDs : d < c => backend[d] # "none"
        /\ \E proto \in Protocols :
            IF ~Supported(proto)
            THEN /\ lastInstall' = [source |-> SourceKind(proto),
                                    res |-> ErrProtocolNotSupported]
                 /\ UNCHANGED <<storeVars, hist>>
            ELSE \/ /\ lastInstall' = [source |-> SourceKind(proto), res |-> ErrRunner]
                    /\ UNCHANGED <<storeVars, hist>>
                 \/ \E b \in Backends :
                    \E fs \in IF b = BackendManual THEN SUBSET {"bin", "sh"} ELSE {{}} :
                      /\ registry' = registry \cup {c}
                      /\ dirs' = dirs \cup {c}
                      /\ backend' = [backend EXCEPT ![c] = b]
                      /\ files' = [files EXCEPT ![c] = fs]
                      /\ hist' = [hist EXCEPT ![c] = @ \o <<Called(c, "install"),
                                                          Returned(c, "install", "ok")>>]
                      /\ lastInstall' = [source |-> SourceKind(proto), res |-> "ok"]
    /\ UNCHANGED <<status, docker, Cmd, lsnVars, received, logs, runs, pc, arg, budget,
                   statusTrace>>
    /\ UNCHANGED <<created, otherVars>>

\* ------------------------------------------------------ Register/Unregister
\* Instance.Register: a fresh listener id is added to the table
Register(l, c) ==
    /\ Up
    /\ lstate[l] = "new"
    /\ c \in registry
    /\ Listeners' = [Listeners EXCEPT ![c] = @ \cup {l}]
    /\ lstate' = [lstate EXCEPT ![l] = "registered"]
    /\ regAt' = [regAt EXCEPT ![l] = Len(statusTrace[c])]
    /\ UNCHANGED <<storeVars, status, docker, Cmd, received, logs, runs, pc, arg,
                   budget, hist, statusTrace>>
    /\ UNCHANGED <<created, lastInstall, otherVars>>

\* Instance.Unregister
Unregister(l, c) ==
    /\ Up
    /\ l \in Listeners[c]
    /\ Listeners' = [Listeners EXCEPT ![c] = @ \ {l}]
    /\ lstate' = [lstate EXCEPT ![l] = "unregistered"]
    /\ UNCHANGED regAt
    /\ UNCHANGED <<storeVars, status, docker, Cmd, received, logs, runs, pc, arg,
                   budget, hist, statusTrace>>
    /\ UNCHANGED <<created, lastInstall, otherVars>>

\* ------------------------------------------------------------------- Start
\* The position a Start goes on at once the precondition check has passed.
StartEntry(c) ==
    CASE backend[c] = BackendService -> "sd_setbuilding"
      [] backend[c] = BackendRunner  -> "rd_setbuilding"
      [] OTHER                       -> "m_prepare"

\* InstanceService.Start up to the dispatch: repo.Get, the "Starting" log
\* line and the IsRunning precondition.
StartBegin(t, c) ==
    /\ CanCall(t)
    /\ IF c \notin registry
       THEN /\ CallReturn(t, c, "start", "instance not found")
            /\ UNCHANGED logs
       ELSE IF IsRunning(status[c])
       THEN /\ WriteLogLines(c, <<LogLine(LogKindVertexOut, "Starting instance..."),
                                  LogLine(LogKindVertexErr, ErrInstanceAlreadyRunning)>>)
            /\ CallReturn(t, c, "start", ErrInstanceAlreadyRunning)
       ELSE /\ WriteLogLines(c, <<LogLine(LogKindVertexOut, "Starting instance...")>>)
            /\ CallGoto(t, c, "start", StartEntry(c))
    /\ NoStatus
    /\ UNCHANGED <<storeVars, docker, Cmd, lsnVars, runs>>
    /\ UNCHANGED <<created, lastInstall, otherVars>>

\* Start returning the runner's error without SetStatus(error)
StartFailedNoStatus(t, c, before, err) ==
    /\ SetStatusSeq(c, before)
    /\ Return(t, c, "start", err)

\* InstanceService.Start after the runner returned err # nil:
\* the statuses the runner set itself, then SetStatus(error), then return err.
StartFailed(t, c, before, err) ==
    /\ SetStatusSeq(c, before \o <<InstanceStatusError>>)
    /\ Return(t, c, "start", err)

\* InstanceService.Start after the runner returned nil
StartSucceeded(t, c, before) ==
    /\ SetStatusSeq(c, before)
    /\ WriteLogLines(c, <<LogLine(LogKindVertexOut, "Instance started.")>>)
    /\ Return(t, c, "start", "ok")

\* a panic inside a handler is recovered by the router's Recovery middleware
Panicked(t, c, op) ==
    /\ Return(t, c, op, "panic")
    /\ NoStatus

\* ---- InstanceService.startWithDocker
\* SetStatus(building); the image build is then in progress
SDSetBuilding(t) ==
    /\ pc[t] = "sd_setbuilding"
    /\ Up
    /\ SetStatus(arg[t], InstanceStatusBuilding)
    /\ Goto(t, "sd_build")
    /\ UNCHANGED <<storeVars, docker, Cmd, lsnVars, logs, runs, budget>>
    /\ UNCHANGED <<created, lastInstall, otherVars>>

\* BuildImage returns
SDBuild(t) ==
    /\ pc[t] = "sd_build"
    /\ Up
    /\ \/ /\ Goto(t, "sd_lookup")
          /\ NoStatus
       \/ StartFailed(t, arg[t], <<>>, ErrRunner)
    /\ UNCHANGED <<storeVars, docker, Cmd, lsnVars, logs, runs, budget>>
    /\ UNCHANGED <<created, lastInstall, otherVars>>

\* a lookup that never finds the container
ContainerFoundNever(c) == FALSE

\* getContainer: the container named /VERTEX_CONTAINER_<uuid> is in the list
ContainerFound(c) == docker[c] # "none"

\* GetContainerID returns: ErrContainerNotFound leads to CreateContainer, an
\* id to SetStatus(starting) and StartContainer, another error is returned
SDLookup(t) ==
    LET c == arg[t] IN
    /\ pc[t] = "sd_lookup"
    /\ Up
    /\ \/ /\ ~ContainerFound(c)
          /\ Goto(t, "sd_create")
          /\ NoStatus
       \/ /\ ContainerFound(c)
          /\ SetStatus(c, InstanceStatusStarting)
          /\ Goto(t, "sd_start")
       \/ StartFailed(t, c, <<>>, ErrRunner)
    /\ UNCHANGED <<storeVars, docker, Cmd, lsnVars, logs, runs, budget>>
    /\ UNCHANGED <<created, lastInstall, otherVars>>

\* CreateContainer returns (Docker refuses a name that is in use); on success
\* SetStatus(starting), and the container start call is then in progress
SDCreate(t) ==
    LET c == arg[t] IN
    /\ pc[t] = "sd_create"
    /\ Up
    /\ \/ /\ docker[c] = "none"
          /\ docker' = [docker EXCEPT ![c] = "created"]
          /\ created' = [created EXCEPT ![c] = @ + 1]
          /\ SetStatus(c, InstanceStatusStarting)
          /\ Goto(t, "sd_start")
       \/ /\ StartFailed(t, c, <<>>, ErrRunner)
          /\ UNCHANGED <<docker, created>>
    /\ UNCHANGED <<storeVars, Cmd, lsnVars, logs, runs, budget>>
    /\ UNCHANGED <<lastInstall, otherVars>>

\* StartContainer returns; on success SetStatus(running)
SDStart(t) ==
    LET c == arg[t] IN
    /\ pc[t] = "sd_start"
    /\ Up
    /\ \/ /\ docker[c] # "none"
          /\ docker' = [docker EXCEPT ![c] = "running"]
          /\ StartSucceeded(t, c, <<InstanceStatusRunning>>)
       \/ /\ StartFailed(t, c, <<>>, ErrRunner)
          /\ UNCHANGED <<docker, logs>>
    /\ UNCHANGED <<storeVars, Cmd, lsnVars, runs, budget>>
    /\ UNCHANGED <<created, lastInstall, otherVars>>

\* ---- RunnerDockerRepository.Start, called by InstanceService.Start
\* setStatus(building); the image build or pull is then in progress
RDSetBuilding(t) ==
    /\ pc[t] = "rd_setbuilding"
    /\ Up
    /\ SetStatus(arg[t], InstanceStatusBuilding)
    /\ Goto(t, "rd_build")
    /\ UNCHANGED <<storeVars, docker, Cmd, lsnVars, logs, runs, budget>>
    /\ UNCHANGED <<created, lastInstall, otherVars>>

\* onErr as the service passes it to the runner: a vertex_err log line
OnErr(c, msg) == WriteLogLines(c, <<LogLine(LogKindVertexErr, msg)>>)

\* a build step that reports the failure with onErr and goes on to the lookup
RDBuildNoReturn(t) ==
    /\ pc[t] = "rd_build"
    /\ Up
    /\ \/ /\ Goto(t, "rd_lookup")
          /\ NoStatus
          /\ UNCHANGED logs
       \/ /\ OnErr(arg[t], ErrRunner)
          /\ Goto(t, "rd_lookup")
          /\ NoStatus
    /\ UNCHANGED <<storeVars, docker, Cmd, lsnVars, runs, budget>>
    /\ UNCHANGED <<created, lastInstall, otherVars>>

\* the build or pull returns; on failure onErr(err) and return err
RDBuild(t) ==
    /\ pc[t] = "rd_build"
    /\ Up
    /\ \/ /\ Goto(t, "rd_lookup")
          /\ NoStatus
          /\ UNCHANGED logs
       \/ /\ OnErr(arg[t], ErrRunner)
          /\ StartFailed(t, arg[t], <<>>, ErrRunner)
    /\ UNCHANGED <<storeVars, docker, Cmd, lsnVars, runs, budget>>
    /\ UNCHANGED <<created, lastInstall, otherVars>>

\* getContainerID returns: ErrContainerNotFound leads to createContainer, an
\* id to ContainerStart, another error is returned (no status is set here)
RDLookup(t) ==
    LET c == arg[t] IN
    /\ pc[t] = "rd_lookup"
    /\ Up
    /\ \/ /\ ~ContainerFound(c)
          /\ Goto(t, "rd_create")
          /\ NoStatus
       \/ /\ ContainerFound(c)
          /\ Goto(t, "rd_start")
          /\ NoStatus
       \/ StartFailed(t, c, <<>>, ErrRunner)
    /\ UNCHANGED <<storeVars, docker, Cmd, lsnVars, logs, runs, budget>>
    /\ UNCHANGED <<created, lastInstall, otherVars>>

\* createContainer returns (Docker refuses a name that is in use); the
\* container start call is then in progress
RDCreate(t) ==
    LET c == arg[t] IN
    /\ pc[t] = "rd_create"
    /\ Up
    /\ \/ /\ docker[c] = "none"
          /\ docker' = [docker EXCEPT ![c] = "created"]
          /\ created' = [created EXCEPT ![c] = @ + 1]
          /\ Goto(t, "rd_start")
          /\ NoStatus
       \/ /\ StartFailed(t, c, <<>>, ErrRunner)
          /\ UNCHANGED <<docker, created>>
    /\ UNCHANGED <<storeVars, Cmd, lsnVars, logs, runs, budget>>
    /\ UNCHANGED <<lastInstall, otherVars>>

\* ContainerStart returns: on failure setStatus(error) and return err, on
\* success setStatus(running), then the log-tail and the wait task are spawned
RDStart(t) ==
    LET c == arg[t] IN
    /\ pc[t] = "rd_start"
    /\ Up
    /\ \/ /\ docker[c] # "none"
          /\ docker' = [docker EXCEPT ![c] = "running"]
          /\ runs' = Append(runs, [c |-> c, kind |-> "docker", state |-> "alive",
                                   wait |-> "pending", on |-> 0, command |-> ""])
          /\ StartSucceeded(t, c, <<InstanceStatusRunning>>)
       \/ /\ StartFailed(t, c, <<InstanceStatusError>>, ErrRunner)
          /\ UNCHANGED <<docker, runs, logs>>
    /\ UNCHANGED <<storeVars, Cmd, lsnVars, budget>>
    /\ UNCHANGED <<created, lastInstall, otherVars>>

\* ---- InstanceService.startManually
FileExists(c, f) == c \in dirs /\ f \in files[c]

\* an executable lookup that prefers the script
ExecutablePreferScript(c) ==
    IF FileExists(c, "sh") THEN "./id.sh"
    ELSE IF FileExists(c, "bin") THEN "./id"
    ELSE "none"

\* the executable lookup: ./<id> when it exists, else ./<id>.sh when that
\* exists, else none
Executable(c) ==
    IF FileExists(c, "bin") THEN "./id"
    ELSE IF FileExists(c, "sh") THEN "./id.sh"
    ELSE "none"

\* os.Stat of the two candidates, exec.Command, the pipes and the scanners,
\* SetStatus(running); Cmd.Start is then in progress
MPrepare(t) ==
    LET c == arg[t] IN
    /\ pc[t] = "m_prepare"
    /\ Up
    /\ \/ /\ Executable(c) = "none"
          /\ StartFailed(t, c, <<>>, ErrExecutableNotFound)
          /\ UNCHANGED <<Cmd, runs>>
       \/ /\ StartFailed(t, c, <<>>, ErrRunner)
          /\ UNCHANGED <<Cmd, runs>>
       \/ /\ Executable(c) # "none"
          /\ runs' = Append(runs, [c |-> c, kind |-> "proc", state |-> "new",
                                   wait |-> "none", on |-> 0,
                                   command |-> Executable(c)])
          /\ Cmd' = [Cmd EXCEPT ![c] = Len(runs) + 1]
          /\ \/ /\ SetStatus(c, InstanceStatusRunning)
                /\ Goto(t, "m_exec")
             \/ StartFailed(t, c, <<>>, ErrRunner)
    /\ UNCHANGED <<storeVars, docker, lsnVars, logs, budget>>
    /\ UNCHANGED <<created, lastInstall, otherVars>>

\* i.Cmd.Start() returns; on success the wait goroutine is spawned: it has
\* not read i.Cmd yet
MExec(t) ==
    LET c == arg[t]
        h == Cmd[c] IN
    /\ pc[t] = "m_exec"
    /\ Up
    /\ IF h = 0
       THEN /\ Panicked(t, c, "start")
            /\ UNCHANGED <<runs, logs>>
       ELSE IF runs[h].state # "new"
       THEN /\ StartFailed(t, c, <<>>, ErrRunner)
            /\ UNCHANGED <<runs, logs>>
       ELSE \/ /\ runs' = [runs EXCEPT ![h].state = "alive", ![h].wait = "spawned"]
               /\ StartSucceeded(t, c, <<>>)
            \/ /\ runs' = [runs EXCEPT ![h].state = "failed"]
               /\ StartFailed(t, c, <<>>, ErrRunner)
               /\ UNCHANGED logs
    /\ UNCHANGED <<storeVars, docker, Cmd, lsnVars, budget>>
    /\ UNCHANGED <<created, lastInstall, otherVars>>

\* -------------------------------------------------------------------- Stop
\* InstanceService.Stop up to the dispatch: repo.Get, the "Stopping" log line
\* and the IsRunning precondition.
StopBegin(t, c) ==
    /\ CanCall(t)
    /\ IF c \notin registry
       THEN /\ CallReturn(t, c, "stop", "instance not found")
            /\ UNCHANGED logs
       ELSE IF ~IsRunning(status[c])
       THEN /\ WriteLogLines(c, <<LogLine(LogKindVertexOut, "Stopping instance..."),
                                  LogLine(LogKindVertexErr, ErrInstanceNotRunning)>>)
            /\ CallReturn(t, c, "stop", ErrInstanceNotRunning)
       ELSE /\ WriteLogLines(c, <<LogLine(LogKindVertexOut, "Stopping instance...")>>)
            /\ CallGoto(t, c, "stop", "stop_runner")
    /\ NoStatus
    /\ UNCHANGED <<storeVars, docker, Cmd, lsnVars, runs>>
    /\ UNCHANGED <<created, lastInstall, otherVars>>

\* Stop returning success without SetStatus(off)
StopSucceededNoStatus(t, c) ==
    /\ WriteLogLines(c, <<LogLine(LogKindVertexOut, "Instance stopped.")>>)
    /\ NoStatus
    /\ Return(t, c, "stop", "ok")

\* InstanceService.Stop after the runner returned nil:
\* the "Instance stopped." log line, SetStatus(off), return nil
StopSucceeded(t, c) ==
    /\ WriteLogLines(c, <<LogLine(LogKindVertexOut, "Instance stopped.")>>)
    /\ SetStatus(c, InstanceStatusOff)
    /\ Return(t, c, "stop", "ok")

\* InstanceService.Stop after the runner returned err # nil: return err
StopFailed(t, c, err) ==
    /\ Return(t, c, "stop", err)
    /\ NoStatus
    /\ UNCHANGED logs

\* stopWithDocker / RunnerDockerRepository.Stop: the container lookup, then
\* ContainerStop, which returns once the container is stopped
StopDocker(t) ==
    LET c == arg[t] IN
    /\ pc[t] = "stop_runner"
    /\ Up
    /\ UseDocker(c)
    /\ \/ /\ docker[c] # "none"
          /\ docker' = [docker EXCEPT ![c] = "created"]
          /\ runs' = DockerStopped(c)
          /\ StopSucceeded(t, c)
       \/ /\ docker[c] = "none"
          /\ StopFailed(t, c, ErrContainerNotFound)
          /\ UNCHANGED <<docker, runs>>
       \/ /\ StopFailed(t, c, ErrRunner)
          /\ UNCHANGED <<docker, runs>>
       \/ /\ docker[c] # "none"
          /\ StopFailed(t, c, ErrRunner)
          /\ UNCHANGED <<docker, runs>>
    /\ UNCHANGED <<storeVars, Cmd, lsnVars, budget>>
    /\ UNCHANGED <<created, lastInstall, otherVars>>

\* stopManually: i.Cmd.Process.Signal(os.Interrupt), then i.Cmd = nil.
\* A nil Cmd or a Cmd that was never started (nil Process) panics; a process
\* that was already waited for makes Signal fail.
StopManually(t) ==
    LET c == arg[t]
        h == Cmd[c] IN
    /\ pc[t] = "stop_runner"
    /\ Up
    /\ ~UseDocker(c)
    /\ IF h = 0 \/ (h # 0 /\ runs[h].state \in {"new", "failed"})
       THEN /\ Panicked(t, c, "stop")
            /\ UNCHANGED <<Cmd, logs>>
       ELSE IF runs[h].wait = "done"
       THEN /\ StopFailed(t, c, "err_signal")
            /\ UNCHANGED Cmd
       ELSE /\ Cmd' = [Cmd EXCEPT ![c] = 0]
            /\ StopSucceeded(t, c)
    /\ UNCHANGED <<storeVars, docker, lsnVars, runs, budget>>
    /\ UNCHANGED <<created, lastInstall, otherVars>>

\* ------------------------------------------------------------------ Delete
\* a Delete that goes to repo.Delete without looking at Docker
DeleteEntrySkipDocker(c) == "del_repo"

\* The position a Delete goes on at once the precondition check has passed:
\* the Docker container is dealt with first if the instance uses Docker.
DeleteEntry(c) == IF UseDocker(c) THEN "del_docker" ELSE "del_repo"

\* InstanceService.Delete up to the Docker lookup: repo.Get and the
\* IsRunning precondition.
DeleteBegin(t, c) ==
    /\ CanCall(t)
    /\ IF c \notin registry
       THEN CallReturn(t, c, "delete", "instance not found")
       ELSE IF IsRunning(status[c])
       THEN CallReturn(t, c, "delete", ErrContainerStillRunning)
       ELSE CallGoto(t, c, "delete", DeleteEntry(c))
    /\ NoStatus
    /\ UNCHANGED <<storeVars, docker, Cmd, lsnVars, logs, runs>>
    /\ UNCHANGED <<created, lastInstall, otherVars>>

\* GetContainerID and RemoveContainer: a container that is not found is only
\* warned about; Docker refuses to remove a running container
DeleteDocker(t) ==
    LET c == arg[t] IN
    /\ pc[t] = "del_docker"
    /\ Up
    /\ \/ /\ docker[c] = "none"
          /\ Goto(t, "del_repo")
          /\ UNCHANGED docker
       \/ /\ docker[c] = "created"
          /\ docker' = [docker EXCEPT ![c] = "none"]
          /\ Goto(t, "del_repo")
       \/ /\ Return(t, c, "delete", ErrRunner)
          /\ UNCHANGED docker
       \/ /\ docker[c] # "none"
          /\ Return(t, c, "delete", ErrRunner)
          /\ UNCHANGED docker
    /\ NoStatus
    /\ UNCHANGED <<storeVars, Cmd, lsnVars, logs, runs, budget>>
    /\ UNCHANGED <<created, lastInstall, otherVars>>

\* repo.Delete: removes the instance directory and the registry entry
DeleteRepo(t) ==
    LET c == arg[t] IN
    /\ pc[t] = "del_repo"
    /\ Up
    /\ \/ /\ registry' = registry \ {c}
          /\ dirs' = dirs \ {c}
          /\ Return(t, c, "delete", "ok")
       \/ /\ Return(t, c, "delete", "err_io")
          /\ UNCHANGED <<registry, dirs>>
    /\ NoStatus
    /\ UNCHANGED <<backend, files, docker, Cmd, lsnVars, logs, runs, budget>>
    /\ UNCHANGED <<created, lastInstall, otherVars>>

\* ------------------------------------------------------- background tasks
\* the child process of run r exits (any cause)
ProcExit(r) ==
    /\ runs[r].kind = "proc"
    /\ runs[r].state = "alive"
    /\ runs' = [runs EXCEPT ![r].state = "exited"]
    /\ NoStatus
    /\ UNCHANGED <<storeVars, docker, Cmd, lsnVars, logs, pc, arg, budget, hist>>
    /\ UNCHANGED <<created, lastInstall, otherVars>>

\* startManually's wait goroutine evaluates i.Cmd.Wait(): it reads i.Cmd,
\* which Stop or another Start may have assigned since the goroutine was
\* spawned.  A nil i.Cmd is a nil dereference outside any handler; a command
\* that was not started makes Wait return an error at once; otherwise the
\* goroutine waits for the process of the command it has read.
ProcBind(r) ==
    LET h == Cmd[runs[r].c] IN
    /\ Up
    /\ runs[r].kind = "proc"
    /\ runs[r].wait = "spawned"
    /\ runs' = IF h = 0 THEN [runs EXCEPT ![r].wait = "panicked"]
               ELSE IF runs[h].state \in {"new", "failed"}
               THEN [runs EXCEPT ![r].wait = "errored", ![r].on = h]
               ELSE [runs EXCEPT ![r].wait = "pending", ![r].on = h]
    /\ NoStatus
    /\ UNCHANGED <<storeVars, docker, Cmd, lsnVars, logs, pc, arg, budget, hist>>
    /\ UNCHANGED <<created, lastInstall, otherVars>>

\* Cmd.Wait has returned to the wait goroutine r
WaitReturned(r) ==
    \/ runs[r].wait = "errored"
    \/ runs[r].wait = "pending" /\ runs[runs[r].on].state = "exited"

\* startManually's wait goroutine: Cmd.Wait returns, SetStatus(off)
ProcWait(r) ==
    /\ Up
    /\ runs[r].kind = "proc"
    /\ WaitReturned(r)
    /\ runs' = [runs EXCEPT ![r].wait = "done"]
    /\ SetStatus(runs[r].c, InstanceStatusOff)
    /\ UNCHANGED <<storeVars, docker, Cmd, lsnVars, logs, pc, arg, budget, hist>>
    /\ UNCHANGED <<created, lastInstall, otherVars>>

\* the workload of the Docker container exits by itself
DockerExit(c) ==
    /\ docker[c] = "running"
    /\ docker' = [docker EXCEPT ![c] = "created"]
    /\ runs' = DockerStopped(c)
    /\ NoStatus
    /\ UNCHANGED <<storeVars, Cmd, lsnVars, logs, pc, arg, budget, hist>>
    /\ UNCHANGED <<created, lastInstall, otherVars>>

\* watchForStatusChange: ContainerWait delivers the exit on resChan and the
\* task calls setStatus(off), or it delivers an error on errChan and the task
\* only logs it
DockerWait(r) ==
    /\ Up
    /\ runs[r].kind = "docker"
    /\ runs[r].wait = "pending"
    /\ \/ /\ runs[r].state = "exited"
          /\ runs' = [runs EXCEPT ![r].wait = "done"]
          /\ SetStatus(runs[r].c, InstanceStatusOff)
       \/ /\ runs' = [runs EXCEPT ![r].wait = "failed"]
          /\ NoStatus
    /\ UNCHANGED <<storeVars, docker, Cmd, lsnVars, logs, pc, arg, budget, hist>>
    /\ UNCHANGED <<created, lastInstall, otherVars>>

\* -------------------------------------------------------------------- Next
Next ==
    \/ \E t \in Callers : Install(t)
    \/ \E t \in Callers, c \in UUIDs : StartBegin(t, c)
    \/ \E t \in Callers : SDSetBuilding(t)
    \/ \E t \in Callers : SDBuild(t)
    \/ \E t \in Callers : SDLookup(t)
    \/ \E t \in Callers : SDCreate(t)
    \/ \E t \in Callers : SDStart(t)
    \/ \E t \in Callers : RDSetBuilding(t)
    \/ \E t \in Callers : RDBuild(t)
    \/ \E t \in Callers : RDLookup(t)
    \/ \E t \in Callers : RDCreate(t)
    \/ \E t \in Callers : RDStart(t)
    \/ \E t \in Callers : MPrepare(t)
    \/ \E t \in Callers : MExec(t)
    \/ \E t \in Callers, c \in UUIDs : StopBegin(t, c)
    \/ \E t \in Callers : StopDocker(t)
    \/ \E t \in Callers : StopManually(t)
    \/ \E t \in Callers, c \in UUIDs : DeleteBegin(t, c)
    \/ \E t \in Callers : DeleteDocker(t)
    \/ \E t \in Callers : DeleteRepo(t)
    \/ \E r \in DOMAIN runs : ProcExit(r)
    \/ \E r \in DOMAIN runs : ProcBind(r)
    \/ \E r \in DOMAIN runs : ProcWait(r)
    \/ \E c \in UUIDs : DockerExit(c)
    \/ \E r \in DOMAIN runs : DockerWait(r)

Spec == Init /\ [][Next]_vars

\* the wait goroutines are scheduled: a goroutine that can read i.Cmd, or
\* whose Cmd.Wait has returned, takes its step
RunIds == 1..MaxCmds

FairWait ==
    \A r \in RunIds :
        /\ WF_vars(r \in DOMAIN runs /\ ProcBind(r))
        /\ WF_vars(r \in DOMAIN runs /\ ProcWait(r))

SpecWait == Init /\ [][Next]_vars /\ FairWait

\* The same program with SSE clients registering and unregistering listeners.
InitEvents == SupInit(MaxEventCmds) /\ BusInit /\ LogInit /\ SetInit /\ BootInit /\ UpdInit /\ SshInit /\ PortInit

NextEvents ==
    \/ Next
    \/ \E l \in ListenerIds, c \in UUIDs : Register(l, c)
    \/ \E l \in ListenerIds, c \in UUIDs : Unregister(l, c)

SpecEvents == InitEvents /\ [][NextEvents]_vars

\* ======================================================================
\* Event dispatch: Instance.SetStatus, the listener table and the channels
\* ======================================================================
\* Instance.SetStatus assigns Status and then ranges over the map Listeners,
\* sending the event on each listener's unbuffered channel: the send blocks
\* until the SSE handler that owns the channel receives.  Nothing is locked.
\* A task is a goroutine that calls SetStatus.

\* nothing but the listener table and its channels takes a step
BusOnly ==
    /\ UNCHANGED <<supVars, logVars, setVars, bootVars, updVars, sshVars, portVars>>

\* the status a task gives to its next SetStatus call: a command thread sets
\* starting and then running (startWithDocker), a wait task sets off
NextStatus(s) ==
    IF s = "wait" THEN InstanceStatusOff
    ELSE IF iStatus = InstanceStatusStarting THEN InstanceStatusRunning
    ELSE InstanceStatusStarting

\* SetStatus, first statement: i.Status = status; the range loop begins
BusSetStatus(s, v) ==
    /\ ~crashed
    /\ disp[s].st = "idle"
    /\ Len(issued) < MaxIssues
    /\ iStatus' = v
    /\ issued' = Append(issued, v)
    /\ disp' = [disp EXCEPT ![s] = [st |-> "iter", ev |-> v, k |-> Len(issued) + 1,
                                    to |-> 0, visited |-> {}, start |-> table]]
    /\ UNCHANGED <<table, conn, since, sendq, got, crashed, emitted>>
    /\ BusOnly

\* SetStatus, the range loop produces the entry of l and the task blocks in
\* the send on l's channel.  An entry deleted before it is reached is not
\* produced; an entry added during the loop may be produced.
BusSend(s, l) ==
    /\ ~crashed
    /\ disp[s].st = "iter"
    /\ l \in table \ disp[s].visited
    /\ disp' = [disp EXCEPT ![s].st = "blocked", ![s].to = l,
                            ![s].visited = @ \cup {l}]
    /\ sendq' = [sendq EXCEPT ![l] = Append(@, s)]
    /\ UNCHANGED <<table, conn, since, iStatus, issued, got, crashed, emitted>>
    /\ BusOnly

\* SetStatus, the range loop is over: every entry that was in the map when
\* the loop began and is still there has been produced (an entry added during
\* the loop may be skipped)
BusReturn(s) ==
    /\ ~crashed
    /\ disp[s].st = "iter"
    /\ (disp[s].start \cap table) \subseteq disp[s].visited
    /\ disp' = [disp EXCEPT ![s] = NoDispatch]
    /\ UNCHANGED <<table, conn, since, iStatus, issued, sendq, got, crashed, emitted>>
    /\ BusOnly

\* the SSE events a handler writes: open, and one for the bus event number k
OpenEvent == [event |-> "open", k |-> 0]
BusEvent(k) == [event |-> InstanceEventStatusChange, k |-> k]

\* the positions of a handler that is inside c.Stream
InStream == {"registered", "open", "cancelled"}

\* the first call of the stream function: the handler writes the open event
\* (when the write fails the handler leaves the stream, see BusUnregister)
BusOpen(l) ==
    /\ ~crashed
    /\ conn[l] = "registered"
    /\ emitted' = [emitted EXCEPT ![l] = Append(@, OpenEvent)]
    /\ conn' = [conn EXCEPT ![l] = "open"]
    /\ UNCHANGED <<table, since, iStatus, issued, disp, sendq, got, crashed>>
    /\ BusOnly

\* the SSE handler of l takes an event from its channel (the select in
\* c.Stream) and writes it to the client: the sender that blocked first is
\* released
BusReceive(l) ==
    /\ ~crashed
    /\ conn[l] \in {"open", "cancelled"}
    /\ sendq[l] # <<>>
    /\ LET s == Head(sendq[l]) IN
        /\ got' = [got EXCEPT ![l] = Append(@, disp[s].k)]
        /\ emitted' = [emitted EXCEPT ![l] = Append(@, BusEvent(disp[s].k))]
        /\ disp' = [disp EXCEPT ![s].st = "iter", ![s].to = 0]
    /\ sendq' = [sendq EXCEPT ![l] = Tail(@)]
    /\ UNCHANGED <<table, conn, since, iStatus, issued, crashed>>
    /\ BusOnly

\* the Go runtime terminates the process: every goroutine and all memory go
Crash ==
    /\ crashed' = TRUE
    /\ table' = {}
    /\ conn' = [l \in Subscribers |-> "closed"]
    /\ since' = [l \in Subscribers |-> 0]
    /\ iStatus' = InstanceStatusOff
    /\ issued' = <<>>
    /\ disp' = [s \in Tasks |-> NoDispatch]
    /\ sendq' = [l \in Subscribers |-> <<>>]
    /\ got' = [l \in Subscribers |-> <<>>]
    /\ emitted' = [l \in Subscribers |-> <<>>]

\* a SetStatus call is between its assignment and its return: it reads the map
Dispatching == \E s \in Tasks : disp[s].st # "idle"

\* the SSE handler of l starts: Register writes the map.  The write is not
\* synchronised with a range loop in progress; the runtime may detect the
\* race and terminate the process.
BusRegister(l) ==
    /\ ~crashed
    /\ conn[l] = "new"
    /\ \A m \in Subscribers : m < l => conn[m] # "new"
    /\ \/ /\ table' = table \cup {l}
          /\ conn' = [conn EXCEPT ![l] = "registered"]
          /\ since' = [since EXCEPT ![l] = Len(issued)]
          /\ UNCHANGED <<iStatus, issued, disp, sendq, got, crashed, emitted>>
       \/ /\ Dispatching
          /\ Crash
    /\ BusOnly

\* the request context of l is done (or the open event could not be
\* written): the handler leaves c.Stream and its deferred function calls
\* Unregister, which deletes from the map
BusUnregister(l) ==
    /\ ~crashed
    /\ conn[l] \in InStream
    /\ \/ /\ table' = table \ {l}
          /\ conn' = [conn EXCEPT ![l] = "unregistered"]
          /\ UNCHANGED <<since, iStatus, issued, disp, sendq, got, crashed, emitted>>
       \/ /\ Dispatching
          /\ Crash
    /\ BusOnly

\* the deferred function then closes the channel: a send blocked on it
\* panics.  The panic of a handler thread is recovered by the router and the
\* SetStatus call is abandoned; the panic of a wait task terminates the
\* process.
BusClose(l) ==
    /\ ~crashed
    /\ conn[l] = "unregistered"
    /\ IF disp["wait"].st = "blocked" /\ disp["wait"].to = l
       THEN Crash
       ELSE /\ conn' = [conn EXCEPT ![l] = "closed"]
            /\ sendq' = [sendq EXCEPT ![l] = <<>>]
            /\ disp' = [s \in Tasks |-> IF disp[s].st = "blocked" /\ disp[s].to = l
                                         THEN NoDispatch ELSE disp[s]]
            /\ UNCHANGED <<table, since, iStatus, issued, got, crashed, emitted>>
    /\ BusOnly

InitBus == Init

NextBus ==
    \/ \E s \in Tasks : BusSetStatus(s, NextStatus(s))
    \/ \E s \in Tasks, l \in Subscribers : BusSend(s, l)
    \/ \E s \in Tasks : BusReturn(s)
    \/ \E l \in Subscribers : BusOpen(l)
    \/ \E l \in Subscribers : BusReceive(l)
    \/ \E l \in Subscribers : BusRegister(l)
    \/ \E l \in Subscribers : BusUnregister(l)
    \/ \E l \in Subscribers : BusClose(l)

SpecBus == InitBus /\ [][NextBus]_vars

\* ---- SSE connections and their request contexts
\* The client of l goes away: the request context of l is done.  The handler
\* handleInstancesEvents is still inside c.Stream, in its select (a context
\* that is done before the open event is written is the handler leaving
\* the stream from "registered", see BusUnregister).
Cancel(l) ==
    /\ ~crashed
    /\ conn[l] = "open"
    /\ conn' = [conn EXCEPT ![l] = "cancelled"]
    /\ UNCHANGED <<table, since, iStatus, issued, disp, sendq, got, crashed, emitted>>
    /\ BusOnly

\* a handler whose request context is done returns from c.Stream and runs
\* its deferred Unregister
UnregisterCancelled(l) == conn[l] = "cancelled" /\ BusUnregister(l)

\* handleEvents: the goroutine it spawns calls Register and then loops on the
\* channel for ever; nothing in the handler calls Unregister
EventsRegister(l) ==
    /\ ~crashed
    /\ conn[l] = "new"
    /\ \A m \in Subscribers : m < l => conn[m] # "new"
    /\ \/ /\ table' = table \cup {l}
          /\ conn' = [conn EXCEPT ![l] = "ev_registered"]
          /\ since' = [since EXCEPT ![l] = Len(issued)]
          /\ UNCHANGED <<iStatus, issued, disp, sendq, got, crashed, emitted>>
       \/ /\ Dispatching
          /\ Crash
    /\ BusOnly

\* handleEvents, the goroutine takes an event from instancesChan (the sender
\* is released) and blocks in the send on the handler's channel; when the
\* handler has left c.Stream nobody receives from that channel any more
EventsReceive(l) ==
    /\ ~crashed
    /\ conn[l] \in {"ev_registered", "ev_cancelled"}
    /\ sendq[l] # <<>>
    /\ LET s == Head(sendq[l]) IN
        /\ got' = [got EXCEPT ![l] = Append(@, disp[s].k)]
        /\ disp' = [disp EXCEPT ![s].st = "iter", ![s].to = 0]
    /\ sendq' = [sendq EXCEPT ![l] = Tail(@)]
    /\ conn' = [conn EXCEPT ![l] = IF @ = "ev_registered" THEN "ev_forwarding"
                                    ELSE "ev_stuck"]
    /\ UNCHANGED <<table, since, iStatus, issued, crashed, emitted>>
    /\ BusOnly

\* handleEvents, the stream function receives the event from the handler's
\* channel and writes it to the client; a failed write ends the stream
EventsForward(l) ==
    /\ ~crashed
    /\ conn[l] = "ev_forwarding"
    /\ \/ /\ emitted' = [emitted EXCEPT ![l] = Append(@, BusEvent(got[l][Len(got[l])]))]
          /\ conn' = [conn EXCEPT ![l] = "ev_registered"]
       \/ /\ conn' = [conn EXCEPT ![l] = "ev_cancelled"]
          /\ UNCHANGED emitted
    /\ UNCHANGED <<table, since, iStatus, issued, disp, sendq, got, crashed>>
    /\ BusOnly

\* handleEvents, the client of l goes away: c.Stream returns and so does the
\* handler; the goroutine stays
EventsCancel(l) ==
    /\ ~crashed
    /\ conn[l] \in {"ev_registered", "ev_forwarding"}
    /\ conn' = [conn EXCEPT ![l] = IF @ = "ev_registered" THEN "ev_cancelled"
                                    ELSE "ev_stuck"]
    /\ UNCHANGED <<table, since, iStatus, issued, disp, sendq, got, crashed, emitted>>
    /\ BusOnly

InitSSE == Init

\* the events are dispatched by command threads
NextSSE ==
    \/ BusSetStatus("cmd", NextStatus("cmd"))
    \/ \E l \in Subscribers : BusSend("cmd", l)
    \/ BusReturn("cmd")
    \/ \E l \in Subscribers : BusOpen(l)
    \/ \E l \in Subscribers : BusReceive(l)
    \/ \E l \in Subscribers : BusRegister(l)
    \/ \E l \in Subscribers : Cancel(l)
    \/ \E l \in Subscribers : BusUnregister(l)
    \/ \E l \in Subscribers : BusClose(l)
    \/ \E l \in Subscribers : EventsRegister(l)
    \/ \E l \in Subscribers : EventsReceive(l)
    \/ \E l \in Subscribers : EventsForward(l)
    \/ \E l \in Subscribers : EventsCancel(l)

\* every goroutine that can take a step eventually takes it: a dispatching
\* thread goes on, a handler serves its channel, a handler whose context is
\* done returns.  Requests, cancellations and status changes are up to the
\* environment.
FairSSE ==
    /\ WF_vars(\E l \in Subscribers : BusSend("cmd", l))
    /\ WF_vars(BusReturn("cmd"))
    /\ \A l \in Subscribers :
          /\ WF_vars(BusOpen(l))
          /\ WF_vars(BusReceive(l))
          /\ WF_vars(UnregisterCancelled(l))
          /\ WF_vars(BusClose(l))
          /\ WF_vars(EventsReceive(l))
          /\ WF_vars(EventsForward(l))

SpecSSE == InitSSE /\ [][NextSSE]_vars /\ FairSSE

\* ======================================================================
\* The log repository: InstanceLogsFSRepository
\* ======================================================================
\* nothing but the log repository takes a step
LogOnly ==
    /\ UNCHANGED <<supVars, busVars, setVars, bootVars, updVars, sshVars, portVars>>

\* LoadBuffer: the buffer of the logger of c
LoadBuffer(c) == loggers[c].buffer

\* the handles that were opened through the interface (not by the rotation)
OpenedByAPI == {h \in DOMAIN handles : handles[h].by = "api"}

\* Open's effect when MkdirAll and OpenFile succeed: a file named for today's
\* date is opened and a fresh logger with an empty buffer replaces the entry
\* of c in the map
OpenLogger(c, who) ==
    /\ handles' = Append(handles, [id |-> c, day |-> day, open |-> TRUE, by |-> who])
    /\ loggers' = [loggers EXCEPT ![c] = [present |-> TRUE, file |-> Len(handles) + 1,
                                          buffer |-> <<>>]]

\* Open(uuid): returns the error of MkdirAll or OpenFile, or installs the logger
Open(c) ==
    /\ Cardinality(OpenedByAPI) < MaxOpens
    /\ \/ OpenLogger(c, "api")
       \/ UNCHANGED <<loggers, handles>>
    /\ UNCHANGED <<disk, day, pushed, cron>>
    /\ UNCHANGED <<pushBudget, pushOp>>
    /\ LogOnly

\* Close(uuid): ErrLoggerNotFound without a logger, else file.Close(), which
\* fails on a file that is already closed; the logger stays in the map
Close(c) ==
    /\ loggers[c].present
    /\ handles[loggers[c].file].open
    /\ handles' = [handles EXCEPT ![loggers[c].file].open = FALSE]
    /\ UNCHANGED <<loggers, disk, day, pushed, cron>>
    /\ UNCHANGED <<pushBudget, pushOp>>
    /\ LogOnly

\* CloseAll: Close for every id of the map; the errors of the files that were
\* already closed are joined and returned
CloseAll ==
    /\ \E c \in UUIDs : loggers[c].present
    /\ handles' = [h \in DOMAIN handles |->
                     IF \E c \in UUIDs : loggers[c].present /\ loggers[c].file = h
                     THEN [handles[h] EXCEPT !.open = FALSE] ELSE handles[h]]
    /\ UNCHANGED <<loggers, disk, day, pushed, cron>>
    /\ UNCHANGED <<pushBudget, pushOp>>
    /\ LogOnly

\* the buffer after a line is appended to it
Appended(buffer, line) ==
    LET b == Append(buffer, line) IN
    IF Len(b) > bufferSize THEN Tail(b) ELSE b

\* a write that succeeds on any file
WriteFailsNever(h) == FALSE

\* fmt.Fprintf(l.file, ...) returns an error: the file was closed
WriteFails(h) == ~handles[h].open

\* Push(uuid, line): without a logger the error is logged and nothing else
\* happens; else the line is appended to the buffer, the oldest line is
\* dropped beyond bufferSize, and the message is written to the logger's file
\* (a write to a closed file fails and the error is logged)
Push(c) ==
    /\ pushBudget > 0
    /\ pushBudget' = pushBudget - 1
    /\ IF ~loggers[c].present
       THEN /\ pushOp' = [id |-> c, logged |-> ErrLoggerNotFound]
            /\ UNCHANGED <<loggers, disk, pushed>>
       ELSE LET line == Len(pushed[c]) + 1
                h == loggers[c].file IN
            /\ pushed' = [pushed EXCEPT ![c] = Append(@, line)]
            /\ loggers' = [loggers EXCEPT ![c].buffer = Appended(@, line)]
            /\ IF WriteFails(h)
               THEN /\ pushOp' = [id |-> c, logged |-> ErrFileClosed]
                    /\ UNCHANGED disk
               ELSE /\ pushOp' = [id |-> c, logged |-> ""]
                    /\ disk' = [disk EXCEPT ![<<c, handles[h].day>>] = Append(@, line)]
    /\ UNCHANGED <<handles, day, cron>>
    /\ LogOnly

\* the local clock crosses midnight and the job scheduled by startCron begins
\* to range over the loggers
Midnight ==
    /\ day < MaxDays
    /\ cron.st = "idle"
    /\ day' = day + 1
    /\ cron' = [st |-> "iter", todo |-> {c \in UUIDs : loggers[c].present}, at |-> 0,
                all |-> {c \in UUIDs : loggers[c].present}, err |-> FALSE]
    /\ UNCHANGED <<loggers, handles, disk, pushed>>
    /\ UNCHANGED <<pushBudget, pushOp>>
    /\ LogOnly

\* the rotation job, r.Close(id): on an error the job logs it and continues
\* with the next id, without opening
CronClose(c) ==
    /\ cron.st = "iter"
    /\ cron.at = 0
    /\ c \in cron.todo
    /\ IF handles[loggers[c].file].open
       THEN /\ handles' = [handles EXCEPT ![loggers[c].file].open = FALSE]
            /\ cron' = [cron EXCEPT !.at = c]
       ELSE /\ cron' = [cron EXCEPT !.todo = @ \ {c}]
            /\ UNCHANGED handles
    /\ UNCHANGED <<loggers, disk, day, pushed>>
    /\ UNCHANGED <<pushBudget, pushOp>>
    /\ LogOnly

\* the rotation job, r.Open(id): an error is logged
CronOpen(c) ==
    /\ cron.st = "iter"
    /\ cron.at = c
    /\ \/ /\ OpenLogger(c, "cron")
          /\ cron' = [cron EXCEPT !.todo = @ \ {c}, !.at = 0]
       \/ /\ UNCHANGED <<loggers, handles>>
          /\ cron' = [cron EXCEPT !.todo = @ \ {c}, !.at = 0, !.err = TRUE]
    /\ UNCHANGED <<disk, day, pushed>>
    /\ UNCHANGED <<pushBudget, pushOp>>
    /\ LogOnly

\* the rotation job has been through every logger
CronDone ==
    /\ cron.st = "iter"
    /\ cron.at = 0
    /\ cron.todo = {}
    /\ cron' = [cron EXCEPT !.st = "idle"]
    /\ UNCHANGED <<loggers, handles, disk, day, pushed>>
    /\ UNCHANGED <<pushBudget, pushOp>>
    /\ LogOnly

\* the lines 1..n
FirstLines(n) == [i \in 1..n |-> i]

\* the repository after Open(c) and n pushes to c on day 0
LogAfter(c, n) ==
    /\ loggers = [d \in UUIDs |-> IF d = c
                                   THEN [present |-> TRUE, file |-> 1,
                                         buffer |-> FirstLines(n)]
                                   ELSE NoLogger]
    /\ handles = <<[id |-> c, day |-> 0, open |-> TRUE, by |-> "api"]>>
    /\ disk = [f \in UUIDs \X Days |-> IF f = <<c, 0>> THEN FirstLines(n) ELSE <<>>]
    /\ day = 0
    /\ pushed = [d \in UUIDs |-> IF d = c THEN FirstLines(n) ELSE <<>>]
    /\ cron = NoRotation
    /\ pushBudget = MaxPushes
    /\ pushOp = NoPush

\* a run starts with a fresh repository, or with a logger whose buffer lacks
\* one line to be full
InitLog ==
    /\ SupInit(MaxCmds)
    /\ BusInit
    /\ PortInit
    /\ SshInit
    /\ UpdInit
    /\ BootInit
    /\ SetInit
    /\ \/ LogInit
       \/ \E c \in UUIDs : LogAfter(c, bufferSize - 1)

NextLog ==
    \/ \E c \in UUIDs : Open(c)
    \/ \E c \in UUIDs : Close(c)
    \/ CloseAll
    \/ \E c \in UUIDs : Push(c)
    \/ Midnight
    \/ \E c \in UUIDs : CronClose(c)
    \/ \E c \in UUIDs : CronOpen(c)
    \/ CronDone

SpecLog == InitLog /\ [][NextLog]_vars

\* ======================================================================
\* The settings of a container: ContainerSettingsService
\* ======================================================================
\* nothing but the settings service takes a step
SetOnly ==
    /\ UNCHANGED <<supVars, busVars, logVars, bootVars, updVars, sshVars, portVars>>

\* the keys of settings.json: the optional fields are left out when unset
JSONKeys(s) ==
    {"display_name", "tags", "databases"}
        \cup (IF s.launch_on_startup = "null" THEN {} ELSE {"launch_on_startup"})
        \cup (IF s.version = "null" THEN {} ELSE {"version"})

\* the adapter's Save writes the settings as a JSON object
Marshal(s) == [k \in JSONKeys(s) |-> s[k]]

\* the adapter's Load reads the object into a zero value: a key that is not
\* in the file leaves its field unset
Unmarshal(o) ==
    [k \in DOMAIN ZeroSettings |-> IF k \in DOMAIN o THEN o[k] ELSE ZeroSettings[k]]

\* adapter.Load(uuid): a missing file is read as the zero value
AdapterLoad(c) ==
    IF settingsFile[c].exists THEN Unmarshal(settingsFile[c].json) ELSE ZeroSettings

\* adapter.Save(uuid, settings): the file is rewritten, or the write fails
AdapterSave(c, s, name) ==
    \/ /\ settingsFile' = [settingsFile EXCEPT ![c] = [exists |-> TRUE, json |-> Marshal(s)]]
       /\ saved' = [saved EXCEPT ![c] = [some |-> TRUE, v |-> s]]
       /\ settingsOp' = [op |-> name, id |-> c, res |-> "ok"]
    \/ /\ UNCHANGED <<settingsFile, saved>>
       /\ settingsOp' = [op |-> name, id |-> c, res |-> "err"]

\* Load without the default of the display name
LoadedAsStored(c, s) == s

\* Load: an empty display name becomes the name of the service
Loaded(c, s) ==
    IF s.display_name = "" THEN [s EXCEPT !.display_name = ServiceName(c)] ELSE s

\* ContainerSettingsService.Save
Save(c, s) ==
    /\ ContainerSettings' = [ContainerSettings EXCEPT ![c] = s]
    /\ AdapterSave(c, s, "save")
    /\ SetOnly

\* ContainerSettingsService.Load
Load(c) ==
    /\ \/ /\ ContainerSettings' = [ContainerSettings EXCEPT ![c] = Loaded(c, AdapterLoad(c))]
          /\ settingsOp' = [op |-> "load", id |-> c, res |-> "ok"]
       \/ /\ UNCHANGED ContainerSettings
          /\ settingsOp' = [op |-> "load", id |-> c, res |-> "err"]
    /\ UNCHANGED <<settingsFile, saved>>
    /\ SetOnly

\* ContainerSettingsService.SetLaunchOnStartup
SetLaunchOnStartup(c, value) ==
    /\ ContainerSettings' = [ContainerSettings EXCEPT ![c].launch_on_startup = value]
    /\ AdapterSave(c, ContainerSettings'[c], "set_launch_on_startup")
    /\ SetOnly

\* ContainerSettingsService.SetDisplayName
SetDisplayName(c, value) ==
    /\ ContainerSettings' = [ContainerSettings EXCEPT ![c].display_name = value]
    /\ AdapterSave(c, ContainerSettings'[c], "set_display_name")
    /\ SetOnly

\* ContainerSettingsService.SetDatabases
SetDatabases(c, value) ==
    /\ ContainerSettings' = [ContainerSettings EXCEPT ![c].databases = value]
    /\ AdapterSave(c, ContainerSettings'[c], "set_databases")
    /\ SetOnly

\* ContainerSettingsService.SetVersion
SetVersion(c, value) ==
    /\ ContainerSettings' = [ContainerSettings EXCEPT ![c].version = value]
    /\ AdapterSave(c, ContainerSettings'[c], "set_version")
    /\ SetOnly

\* ContainerSettingsService.SetTags
SetTags(c, value) ==
    /\ ContainerSettings' = [ContainerSettings EXCEPT ![c].tags = value]
    /\ AdapterSave(c, ContainerSettings'[c], "set_tags")
    /\ SetOnly

InitSettings == Init

NextSettings ==
    \/ \E c \in UUIDs, s \in SettingsValues : Save(c, s)
    \/ \E c \in UUIDs : Load(c)
    \/ \E c \in UUIDs, value \in {"true", "false"} : SetLaunchOnStartup(c, value)
    \/ \E c \in UUIDs, value \in DisplayNames : SetDisplayName(c, value)
    \/ \E c \in UUIDs, value \in DatabaseMaps : SetDatabases(c, value)
    \/ \E c \in UUIDs, value \in OptionalVersions \ {"null"} : SetVersion(c, value)
    \/ \E c \in UUIDs, value \in TagSets : SetTags(c, value)

SpecSettings == InitSettings /\ [][NextSettings]_vars

\* ======================================================================
\* The startup of the process: main and Router.Start
\* ======================================================================
\* nothing but the startup takes a step
BootOnly ==
    /\ UNCHANGED <<supVars, busVars, logVars, setVars, updVars, sshVars, portVars>>

\* setupDependencies: the client, the services and the packages, in order
Dependencies == <<"client", "services", "packages">>

\* os.Exit, or main returns: every goroutine of the process ends
Exit ==
    /\ mainPc' = "exited"
    /\ loaderPc' = IF loaderPc = "none" THEN "none" ELSE "exited"
    /\ signalPc' = IF signalPc = "none" THEN "none" ELSE "exited"

Running == mainPc # "exited"

\* parseArgs: a flag that prints the version, the date or the commit exits
ParseArgs ==
    /\ mainPc = "parse_args"
    /\ \/ /\ mainPc' = "setup_dependencies"
          /\ UNCHANGED <<loaderPc, signalPc>>
       \/ Exit
    /\ UNCHANGED <<deps, phases>>
    /\ BootOnly

\* a setup that goes on to the router whatever was set up
SetupCompleteAlways == TRUE

\* the loop of setupDependencies is over
SetupComplete == Len(deps) = Len(Dependencies)

\* setupDependency of the next dependency: its directory exists already, or
\* it is downloaded and installed, or that fails and the process exits
SetupDependency ==
    /\ mainPc = "setup_dependencies"
    /\ Len(deps) < Len(Dependencies)
    /\ \/ /\ \E how \in {"exists", "installed"} : deps' = Append(deps, how)
          /\ UNCHANGED <<mainPc, loaderPc, signalPc>>
       \/ /\ Exit
          /\ UNCHANGED deps
    /\ UNCHANGED phases
    /\ BootOnly

\* setupDependencies returns nil; config.Current.Apply follows and main
\* returns if it fails
ApplyConfig ==
    /\ mainPc = "setup_dependencies"
    /\ SetupComplete
    /\ \/ /\ mainPc' = "new_router"
          /\ phases' = Append(phases, "dependencies_set_up")
          /\ UNCHANGED <<loaderPc, signalPc>>
       \/ /\ Exit
          /\ phases' = Append(phases, "dependencies_set_up")
    /\ UNCHANGED deps
    /\ BootOnly

\* router.NewRouter: the engine, the adapters, the services, the routes
NewRouter ==
    /\ mainPc = "new_router"
    /\ mainPc' = "router_start"
    /\ phases' = Append(phases, "router_created")
    /\ UNCHANGED <<loaderPc, signalPc, deps>>
    /\ BootOnly

\* Router.Start: spawns the goroutine that loads and starts the instances,
\* then handleSignals spawns the one that waits for the interrupt
RouterStart ==
    /\ mainPc = "router_start"
    /\ mainPc' = "start_webhook"
    /\ loaderPc' = "load_all"
    /\ signalPc' = "waiting"
    /\ phases' = Append(phases, "router_started")
    /\ UNCHANGED deps
    /\ BootOnly

\* notificationsService.StartWebhook: an error is logged
StartWebhook ==
    /\ mainPc = "start_webhook"
    /\ mainPc' = "listen"
    /\ UNCHANGED <<loaderPc, signalPc, deps, phases>>
    /\ BootOnly

\* ListenAndServe: the server accepts requests, or it fails and main returns
ListenAndServe ==
    /\ mainPc = "listen"
    /\ \/ /\ mainPc' = "serving"
          /\ UNCHANGED <<loaderPc, signalPc>>
       \/ Exit
    /\ UNCHANGED <<deps, phases>>
    /\ BootOnly

\* the goroutine of Router.Start: instanceService.LoadAll() is called
LoadAllBegin ==
    /\ loaderPc = "load_all"
    /\ loaderPc' = "loading"
    /\ phases' = Append(phases, "load_all_begin")
    /\ UNCHANGED <<mainPc, signalPc, deps>>
    /\ BootOnly

\* LoadAll returns
LoadAllEnd ==
    /\ loaderPc = "loading"
    /\ loaderPc' = "start_all"
    /\ phases' = Append(phases, "load_all_end")
    /\ UNCHANGED <<mainPc, signalPc, deps>>
    /\ BootOnly

\* instanceService.StartAll() is called
StartAllBegin ==
    /\ loaderPc = "start_all"
    /\ loaderPc' = "starting"
    /\ phases' = Append(phases, "start_all_begin")
    /\ UNCHANGED <<mainPc, signalPc, deps>>
    /\ BootOnly

\* StartAll returns and the goroutine ends
StartAllEnd ==
    /\ loaderPc = "starting"
    /\ loaderPc' = "done"
    /\ phases' = Append(phases, "start_all_end")
    /\ UNCHANGED <<mainPc, signalPc, deps>>
    /\ BootOnly

\* the interrupt signal arrives: the goroutine of handleSignals calls Stop
Interrupt ==
    /\ Running
    /\ signalPc = "waiting"
    /\ signalPc' = "stopping"
    /\ UNCHANGED <<mainPc, loaderPc, deps, phases>>
    /\ BootOnly

\* Router.Stop returns and the goroutine calls os.Exit(0)
Shutdown ==
    /\ signalPc = "stopping"
    /\ Exit
    /\ UNCHANGED <<deps, phases>>
    /\ BootOnly

InitBoot == Init

NextBoot ==
    \/ ParseArgs
    \/ SetupDependency
    \/ ApplyConfig
    \/ NewRouter
    \/ RouterStart
    \/ StartWebhook
    \/ ListenAndServe
    \/ LoadAllBegin
    \/ LoadAllEnd
    \/ StartAllBegin
    \/ StartAllEnd
    \/ Interrupt
    \/ Shutdown

SpecBoot == InitBoot /\ [][NextBoot]_vars

\* ======================================================================
\* The update check of the Docker runner: CheckForUpdates
\* ======================================================================
\* nothing but the update check and the images take a step
UpdOnly ==
    /\ UNCHANGED <<supVars, busVars, logVars, setVars, bootVars, sshVars, portVars>>

\* CheckForUpdates returns res
Checked(res) == checkOp' = [res |-> res, seq |-> 1 - checkOp.seq]

\* a comparison that never finds the ids equal
SameImageNever(latest, current) == FALSE

\* latestImageID == currentImageID
SameImage(latest, current) == latest = current

\* RunnerDockerRepository.CheckForUpdates.  A Dockerfile-based service
\* returns nil at once.  Otherwise: ImagePull (the response is not read, so the
\* host may or may not have the registry's image by the time of the next
\* call), ImageInspectWithRaw of the image name, getImageID of the container,
\* and the comparison; each call can fail, and then the error is returned.
CheckForUpdates ==
    /\ IF method = "dockerfile"
       THEN /\ Checked("ok")
            /\ UNCHANGED <<localImage, Update>>
       ELSE \/ /\ Checked(ErrRunner)
               /\ UNCHANGED <<localImage, Update>>
            \/ /\ localImage' \in {localImage, remoteImage}
               /\ \/ /\ Checked(ErrRunner)
                     /\ UNCHANGED Update
                  \/ /\ localImage' # 0
                     /\ containerImage = 0
                     /\ Checked(ErrContainerNotFound)
                     /\ UNCHANGED Update
                  \/ /\ localImage' # 0
                     /\ containerImage # 0
                     /\ Checked("ok")
                     /\ Update' = IF SameImage(localImage', containerImage)
                                  THEN NoUpdate
                                  ELSE [CurrentVersion |-> containerImage,
                                        LatestVersion |-> localImage']
    /\ UNCHANGED <<method, remoteImage, containerImage>>
    /\ UpdOnly

\* a new image is published under the image name
Publish(v) ==
    /\ v # remoteImage
    /\ remoteImage' = v
    /\ UNCHANGED <<method, localImage, containerImage, Update, checkOp>>
    /\ UpdOnly

\* the container of the instance is created from the image the host has
\* (Start after the container was removed)
Recreate ==
    /\ localImage # 0
    /\ containerImage # localImage
    /\ containerImage' = localImage
    /\ UNCHANGED <<method, remoteImage, localImage, Update, checkOp>>
    /\ UpdOnly

InitUpd ==
    /\ SupInit(MaxCmds)
    /\ BusInit
    /\ LogInit
    /\ SetInit
    /\ BootInit
    /\ UpdInitAny
    /\ PortInit
    /\ SshInit

NextUpd ==
    \/ CheckForUpdates
    \/ \E v \in ImageIds : Publish(v)
    \/ Recreate

SpecUpd == InitUpd /\ [][NextUpd]_vars

\* ======================================================================
\* The SSH keys of the host: SshFsAdapter
\* ======================================================================
\* nothing but the adapter and the authorized-keys file take a step
SshOnly ==
    /\ UNCHANGED <<supVars, busVars, logVars, setVars, bootVars, updVars, portVars>>

ErrKeyNotFound == "key not found"
ErrNoSuchFile == "no such file"

\* a parser that takes every line for a key
ValidKeyAny(line) == TRUE

\* ssh.ParseAuthorizedKey succeeds on the line
ValidKey(line) == line \in KeyIds

\* ssh.FingerprintSHA256 of the key
FingerprintSHA256(k) == k

\* the keys of the lines, in the order of the file; lines that do not parse
\* are skipped
ParseKeys(lines) == SelectSeq(lines, ValidKey)

\* the index of the first line whose key has the fingerprint, 0 if none
FirstWith(lines, fp) ==
    IF \E i \in 1..Len(lines) : ValidKey(lines[i]) /\ FingerprintSHA256(lines[i]) = fp
    THEN CHOOSE i \in 1..Len(lines) :
            /\ ValidKey(lines[i]) /\ FingerprintSHA256(lines[i]) = fp
            /\ \A j \in 1..(i - 1) :
                  ~(ValidKey(lines[j]) /\ FingerprintSHA256(lines[j]) = fp)
    ELSE 0

WithoutLine(lines, i) == SubSeq(lines, 1, i - 1) \o SubSeq(lines, i + 1, Len(lines))

\* SshFsAdapter.GetAll: the keys of the file, none if the file does not exist
GetAll ==
    /\ sshKeys' = IF authorizedKeys.exists THEN ParseKeys(authorizedKeys.lines)
                                            ELSE <<>>
    /\ sshOp' = [op |-> "GetAll", res |-> "ok"]
    /\ UNCHANGED <<authorizedKeys, sshCount>>
    /\ SshOnly

\* SshFsAdapter.Add of a valid key: the key is appended as a line of its own
Add(k) ==
    /\ ValidKey(k)
    /\ IF authorizedKeys.exists
       THEN /\ Len(authorizedKeys.lines) < MaxLines
            /\ authorizedKeys' = [authorizedKeys EXCEPT !.lines = Append(@, k)]
            /\ sshCount' = sshCount + 1
            /\ sshOp' = [op |-> "Add", res |-> "ok"]
       ELSE /\ sshOp' = [op |-> "Add", res |-> ErrNoSuchFile]
            /\ UNCHANGED <<authorizedKeys, sshCount>>
    /\ sshKeys' = <<>>
    /\ SshOnly

\* SshFsAdapter.Remove: the first line whose key has the fingerprint is removed
Remove(fp) ==
    /\ IF authorizedKeys.exists /\ FirstWith(authorizedKeys.lines, fp) # 0
       THEN /\ authorizedKeys' =
                  [authorizedKeys EXCEPT
                     !.lines = WithoutLine(@, FirstWith(authorizedKeys.lines, fp))]
            /\ sshCount' = sshCount - 1
            /\ sshOp' = [op |-> "Remove", res |-> "ok"]
       ELSE /\ sshOp' = [op |-> "Remove", res |-> ErrKeyNotFound]
            /\ UNCHANGED <<authorizedKeys, sshCount>>
    /\ sshKeys' = <<>>
    /\ SshOnly

\* a line that is no key is written to the file by someone else
WriteInvalid ==
    /\ authorizedKeys.exists
    /\ Len(authorizedKeys.lines) < MaxLines
    /\ authorizedKeys' = [authorizedKeys EXCEPT !.lines = Append(@, InvalidLine)]
    /\ sshOp' = NoSshOp
    /\ sshKeys' = <<>>
    /\ UNCHANGED sshCount
    /\ SshOnly

\* the file is removed by someone else: no key is left
RemoveFile ==
    /\ authorizedKeys.exists
    /\ authorizedKeys' = [exists |-> FALSE, lines |-> <<>>]
    /\ sshCount' = 0
    /\ sshOp' = NoSshOp
    /\ sshKeys' = <<>>
    /\ SshOnly

InitSsh == Init

NextSsh ==
    \/ GetAll
    \/ \E k \in KeyIds : Add(k)
    \/ \E fp \in KeyIds : Remove(fp)
    \/ WriteInvalid
    \/ RemoveFile

SpecSsh == InitSsh /\ [][NextSsh]_vars

\* ======================================================================
\* The port options of RunnerDockerRepository.Start
\* ======================================================================
\* nothing but the port options takes a step
PortOnly ==
    /\ UNCHANGED <<supVars, busVars, logVars, setVars, bootVars, updVars, sshVars>>

\* instance.EnvVariables[name]: the zero value for a name that is not set
EnvValue(name) == IF name \in DOMAIN EnvVariables THEN EnvVariables[name] ELSE ""

\* e.Type == "port" && e.Default == out
Overrides(e, out) == e.Type = "port" /\ e.Default = out

\* the indices of the env definitions that override the host port out
Matching(out) == {i \in DOMAIN EnvDefinitions : Overrides(EnvDefinitions[i], out)}

\* the first env definition that overrides out (the loop breaks there)
FirstMatching(out) == CHOOSE i \in Matching(out) : \A j \in Matching(out) : i <= j

\* the loop over the declared ports: a spec host:container is appended inside
\* the test of the env definition, with the value of the env variable as host
PortSpecs(ports) ==
    {[host |-> EnvValue(EnvDefinitions[FirstMatching(ports[in])].Name),
      container |-> in] : in \in {p \in DOMAIN ports : Matching(ports[p]) # {}}}

\* RunnerDockerRepository.Start, creation of the container: the specs of the
\* declared ports are computed and parsed into exposed ports and bindings
ComputePorts ==
    /\ ~portBindings.done
    /\ portBindings' = [done |-> TRUE, all |-> PortSpecs(DockerPorts)]
    /\ UNCHANGED <<DockerPorts, EnvDefinitions, EnvVariables>>
    /\ PortOnly

\* the instance is started again after its container was removed
ResetPorts ==
    /\ portBindings.done
    /\ portBindings' = NoBindings
    /\ UNCHANGED <<DockerPorts, EnvDefinitions, EnvVariables>>
    /\ PortOnly

\* the declared port mappings of a service
PortMaps == UNION {[d -> HostPorts] : d \in SUBSET ContainerPorts}

\* the env definitions of a service: at most one per name, in the order of
\* the names
EnvDefs == [Name : EnvNames, Type : EnvTypes, Default : HostPorts]
EnvDefSeqs ==
    {<<>>} \cup {<<e>> : e \in EnvDefs}
           \cup {<<e, f>> : e \in {x \in EnvDefs : x.Name = "PORT"},
                            f \in {x \in EnvDefs : x.Name = "ADMIN_PORT"}}

\* the values the user has set
EnvMaps == UNION {[d -> EnvValues] : d \in SUBSET EnvNames}

\* any service and any instance of it
PortInitAny ==
    /\ DockerPorts \in PortMaps
    /\ EnvDefinitions \in EnvDefSeqs
    /\ EnvVariables \in EnvMaps
    /\ portBindings = NoBindings

InitPorts ==
    /\ SupInit(MaxCmds)
    /\ BusInit
    /\ LogInit
    /\ SetInit
    /\ BootInit
    /\ UpdInit
    /\ SshInit
    /\ PortInitAny

NextPorts ==
    \/ ComputePorts
    \/ ResetPorts

SpecPorts == InitPorts /\ [][NextPorts]_vars

\* ======================================================================
\* Properties
\* ======================================================================
RunningStatuses == {InstanceStatusBuilding, InstanceStatusStarting, InstanceStatusRunning}

Last(q) == q[Len(q)]

\* in this step command op is called on c
CalledNow(c, op) ==
    /\ Len(hist'[c]) > Len(hist[c])
    /\ hist'[c][Len(hist[c]) + 1] = Called(c, op)

\* in this step command op is called on c and returns r at once
RejectedNow(c, op, r) ==
    hist'[c] = hist[c] \o <<Called(c, op), Returned(c, op, r)>>

\* in this step command op on c goes past its precondition check
AcceptedNow(c, op) ==
    hist'[c] = Append(hist[c], Called(c, op))

\* the last command on c was op, called and returned r at once
JustRejected(c, op, r) ==
    /\ Len(hist[c]) >= 2
    /\ hist[c][Len(hist[c]) - 1] = Called(c, op)
    /\ Last(hist[c]) = Returned(c, op, r)

\* C1: for every registered container whose status is building, starting or
\* running, a Delete call fails with the still-running error and leaves the
\* registry entry, the instance directory, the Docker container and the
\* status as they were.
C1_DeleteWhileRunningFails ==
    [][\A c \in UUIDs :
        (c \in registry /\ status[c] \in RunningStatuses /\ CalledNow(c, "delete"))
        => /\ RejectedNow(c, "delete", ErrContainerStillRunning)
           /\ pc' = pc
           /\ registry' = registry
           /\ dirs' = dirs
           /\ docker' = docker
           /\ status' = status]_vars

\* C1 witness: a Delete was just rejected with the still-running error on a
\* registered container in a running status, which is still registered with
\* its directory.
C1_Witness ==
    \E c \in UUIDs :
        /\ JustRejected(c, "delete", ErrContainerStillRunning)
        /\ status[c] \in RunningStatuses
        /\ c \in registry
        /\ c \in dirs

StartPcs == {"sd_setbuilding", "sd_build", "sd_lookup", "sd_create", "sd_start",
             "rd_setbuilding", "rd_build", "rd_lookup", "rd_create", "rd_start",
             "m_prepare", "m_exec"}

\* the positions of a Stop past its precondition check
StopPcs == {"stop_runner"}

\* in this step a command op on c that was past its precondition returns r
ReturnsNow(c, op, r) ==
    hist'[c] = Append(hist[c], Returned(c, op, r))

\* a Start of c succeeded, no Stop was called on c and no workload of c exited
StartedAndUp(c) ==
    /\ \E k \in DOMAIN hist[c] : hist[c][k] = Returned(c, "start", "ok")
    /\ \A k \in DOMAIN hist[c] : hist[c][k].op # "stop"
    /\ \A r \in DOMAIN runs : runs[r].c = c => runs[r].state # "exited"
    /\ UseDocker(c) => docker[c] = "running"

\* C3 as stated: after a Start of c succeeded and before any Stop or workload
\* exit, another Start of c fails with the already-running error, does not
\* enter the runner and does not change the status.
C3_SecondStartRejected ==
    [][\A c \in UUIDs :
        (c \in registry /\ StartedAndUp(c) /\ CalledNow(c, "start"))
        => /\ RejectedNow(c, "start", ErrInstanceAlreadyRunning)
           /\ pc' = pc
           /\ runs' = runs
           /\ docker' = docker
           /\ status' = status]_vars

\* C4: a Stop call on a registered container whose status is off or error
\* fails with the not-running error, does not enter the runner (no signal, no
\* Docker stop) and leaves the status as it was.
C4_StopWhenNotRunningFails ==
    [][\A c \in UUIDs :
        (c \in registry /\ status[c] \in {InstanceStatusOff, InstanceStatusError}
                        /\ CalledNow(c, "stop"))
        => /\ RejectedNow(c, "stop", ErrInstanceNotRunning)
           /\ pc' = pc
           /\ runs' = runs
           /\ docker' = docker
           /\ Cmd' = Cmd
           /\ status' = status]_vars

\* C4 witness: a Stop was just rejected with the not-running error on a
\* registered container whose status is error.
C4_Witness ==
    \E c \in UUIDs :
        /\ JustRejected(c, "stop", ErrInstanceNotRunning)
        /\ status[c] = InstanceStatusError
        /\ c \in registry

\* in this step a wait task of c observes the exit of its workload
WaitObserves(c) ==
    \E r \in DOMAIN runs :
        /\ runs[r].c = c
        /\ runs[r].wait \in {"pending", "errored"}
        /\ runs'[r].wait = "done"

\* this step is a step of a Start of c that is past its precondition check
StartActs(c) ==
    \E t \in Callers : arg[t] = c /\ pc[t] \in StartPcs /\ pc'[t] # pc[t]

\* C5: when Stop returns success the status is off, when the wait task
\* observes the exit of the workload the status is off, and a status that is
\* off changes only by a step of a Start; so once both have happened the
\* status is off and stays off until a Start acts.
C5_OffAfterStopUntilStart ==
    [][\A c \in UUIDs :
        /\ (ReturnsNow(c, "stop", "ok") \/ WaitObserves(c))
              => status'[c] = InstanceStatusOff
        /\ (status[c] = InstanceStatusOff /\ status'[c] # InstanceStatusOff)
              => StartActs(c)]_vars

\* C5 witness: the last command on c is a Stop that returned success, a wait
\* task of c has observed the exit, and the status is off.
C5_Witness ==
    \E c \in UUIDs :
        /\ Len(hist[c]) > 0
        /\ Last(hist[c]) = Returned(c, "stop", "ok")
        /\ \E r \in DOMAIN runs : runs[r].c = c /\ runs[r].wait = "done"
        /\ status[c] = InstanceStatusOff

\* C6 as stated: for every container id at most one caller is past the
\* precondition check of a Start or a Stop.
C6_OneCommandPerId ==
    \A c \in UUIDs :
        \A t, u \in Callers :
            (/\ arg[t] = c /\ pc[t] \in StartPcs \cup StopPcs
             /\ arg[u] = c /\ pc[u] \in StartPcs \cup StopPcs)
            => t = u

\* a status sequence without the repetitions of a status by itself
RECURSIVE Transitions(_)
Transitions(q) ==
    IF Len(q) <= 1 THEN q
    ELSE IF q[1] = q[2] THEN Transitions(Tail(q))
    ELSE <<q[1]>> \o Transitions(Tail(q))

\* the commands of one Install, one successful Start, one successful Stop
OneRun(c) ==
    <<Called(c, "install"), Returned(c, "install", "ok"),
      Called(c, "start"), Returned(c, "start", "ok"),
      Called(c, "stop"), Returned(c, "stop", "ok")>>

\* C7 as stated: for a Docker-backed container, one successful Start followed
\* by one successful Stop drives the status through exactly
\* off, building, starting, running, off.
C7_DockerStatusSequence ==
    \A c \in UUIDs :
        (UseDocker(c) /\ hist[c] = OneRun(c))
        => Transitions(<<InstanceStatusOff>> \o statusTrace[c])
             = <<InstanceStatusOff, InstanceStatusBuilding, InstanceStatusStarting,
                 InstanceStatusRunning, InstanceStatusOff>>

\* C8 as stated: over one Install, Start, Stop run of a Docker-backed
\* container, once no wait task is pending, a subscriber registered for the
\* whole run has received exactly the four events building, starting, running,
\* off.
C8_FourStatusEvents ==
    \A c \in UUIDs : \A l \in ListenerIds :
        (/\ UseDocker(c)
         /\ hist[c] = OneRun(c)
         /\ l \in Listeners[c]
         /\ regAt[l] = 0
         /\ \A r \in DOMAIN runs : runs[r].c = c => runs[r].wait # "pending")
        => received[l] = <<StatusChange(InstanceStatusBuilding),
                           StatusChange(InstanceStatusStarting),
                           StatusChange(InstanceStatusRunning),
                           StatusChange(InstanceStatusOff)>>

\* in this step a Start of c that entered the runner returns an error
StartFailsNow(c) ==
    /\ Len(hist'[c]) = Len(hist[c]) + 1
    /\ Last(hist'[c]).op = "start"
    /\ Last(hist'[c]).res \notin {"call", "ok", "panic"}

\* C9: whenever a Start that entered the runner returns an error, the status
\* of the container is error when it returns.
C9_StartFailureSetsError ==
    [][\A c \in UUIDs : StartFailsNow(c) => status'[c] = InstanceStatusError]_vars

\* C9 witness: the last command on c is a Start that returned the runner's
\* error, and the status is error.
C9_Witness ==
    \E c \in UUIDs :
        /\ Len(hist[c]) > 0
        /\ Last(hist[c]) = Returned(c, "start", ErrRunner)
        /\ status[c] = InstanceStatusError

\* C10 as stated: when the Start of a process-backed container fails because
\* neither executable exists, the status becomes error and a vertex_err log
\* line carrying the missing-executable message is in the container's logs.
C10_MissingExecutableLogged ==
    [][\A c \in UUIDs :
        (~UseDocker(c) /\ ReturnsNow(c, "start", ErrExecutableNotFound))
        => /\ status'[c] = InstanceStatusError
           /\ \E i \in DOMAIN logs'[c] :
                logs'[c][i] = LogLine(LogKindVertexErr, ErrExecutableNotFound)]_vars

\* in this step a Stop of c that entered the runner returns an error
StopFailsNow(c) ==
    /\ Len(hist'[c]) = Len(hist[c]) + 1
    /\ Last(hist'[c]).op = "stop"
    /\ Last(hist'[c]).res \notin {"call", "ok", "panic"}

\* C11 as stated: whenever a Stop that entered the runner returns the runner's
\* error, the status of the container is error when it returns (stated here
\* for a Stop that runs alone, with no other command on c in progress).
C11_StopFailureSetsError ==
    [][\A c \in UUIDs :
        (/\ StopFailsNow(c)
         /\ \A t \in Callers : arg[t] = c => pc[t] \in StopPcs
         /\ \A t, u \in Callers : (arg[t] = c /\ arg[u] = c) => t = u)
        => status'[c] = InstanceStatusError]_vars

\* C12 as stated: every subscriber receives the status_change events of the
\* container that were issued after it registered in the order in which the
\* statuses were assigned, whichever tasks assigned them.
C12_EventsInIssueOrder ==
    \A l \in Subscribers :
        \A i, j \in DOMAIN got[l] :
            (i < j /\ got[l][i] > since[l] /\ got[l][j] > since[l])
            => got[l][i] < got[l][j]

\* the number of times the event with issue number k is in the sequence q
Count(q, k) == Cardinality({i \in DOMAIN q : q[i] = k})

\* in this step the SetStatus call of task s ends (it returns or is abandoned)
DispatchEnds(s) == disp[s].st # "idle" /\ disp'[s].st = "idle" /\ ~crashed'

\* C13 as stated: when the dispatch of an event ends, every subscriber that
\* was registered before the event was issued and is still registered has
\* received the event exactly once; no subscriber receives an event twice, and
\* a subscriber receives events only while it is registered.
C13_ExactlyOnceWhileRegistered ==
    [][~crashed' =>
       /\ \A s \in Tasks :
            DispatchEnds(s)
            => \A l \in disp[s].start \cap table' : Count(got'[l], disp[s].k) = 1
       /\ \A l \in Subscribers :
            /\ \A k \in 1..Len(issued') : Count(got'[l], k) <= 1
            /\ got'[l] # got[l] => l \in table]_vars

\* the last n elements of the sequence q
LastN(q, n) == SubSeq(q, Len(q) - n + 1, Len(q))

Min(a, b) == IF a <= b THEN a ELSE b

\* C14 as stated: for every id with a logger, LoadBuffer returns the last
\* min(bufferSize, n) of the n lines pushed for that id, in push order, and
\* never more than bufferSize lines (stated here for an id that was opened
\* through the interface at most once).
C14_BufferHoldsLastLines ==
    \A c \in UUIDs :
        (loggers[c].present /\ Cardinality(OpenedByAPI) <= 1)
        => /\ LoadBuffer(c) = LastN(pushed[c], Min(bufferSize, Len(pushed[c])))
           /\ Len(LoadBuffer(c)) <= bufferSize

\* the rotation of the latest midnight has been through every logger, and
\* every Open it called succeeded
RotationRan == day > 0 /\ cron.st = "idle" /\ ~cron.err

\* in this step a line is pushed to the logger of c
PushedNow(c) == pushed'[c] # pushed[c]

\* C15 as stated: once the midnight rotation has run, for every logger that
\* was in the map, no file of an earlier day is open, and every Push writes
\* its line to the file named for the new date and to no other file.
C15_PushAfterRotation ==
    [][\A c \in UUIDs :
        (RotationRan /\ c \in cron.all /\ PushedNow(c))
        => /\ \A h \in DOMAIN handles :
                (handles[h].id = c /\ handles[h].day < day) => ~handles[h].open
           /\ disk'[<<c, day>>] = Append(disk[<<c, day>>], Last(pushed'[c]))
           /\ \A d \in Days : d # day => disk'[<<c, d>>] = disk[<<c, d>>]]_vars

\* the runner resource of c: the Docker container of its name, or the process
\* handle i.Cmd of a started process whose exit the wait task has not observed
HasResource(c) ==
    IF UseDocker(c) THEN docker[c] # "none"
    ELSE /\ Cmd[c] # 0
         /\ runs[Cmd[c]].state \in {"alive", "exited"}
         /\ runs[Cmd[c]].wait # "done"

\* a Start of c is past its precondition check and has not returned
StartInProgress(c) == \E t \in Callers : arg[t] = c /\ pc[t] \in StartPcs

\* C16 as stated: a registered container whose status is building, starting
\* or running has a runner resource, unless a Start of it has not returned.
C16_RunningHasResource ==
    \A c \in registry :
        (status[c] \in RunningStatuses /\ ~StartInProgress(c)) => HasResource(c)

\* Load of c returns without error in this step
LoadedNow(c) == settingsOp' = [op |-> "load", id |-> c, res |-> "ok"]

\* s merged with the defaults: the display name defaults to the service's name
MergedWithDefaults(c, s) ==
    [s EXCEPT !.display_name = IF @ = "" THEN ServiceName(c) ELSE @]

\* C17 (amended): a Load that follows a successful Save of s yields s with an
\* empty display_name replaced by the name of the service, and s itself when
\* its display_name is not empty.
C17_LoadYieldsSavedWithDefaults ==
    [][\A c \in UUIDs :
          (LoadedNow(c) /\ saved[c].some) =>
              /\ ContainerSettings'[c] = MergedWithDefaults(c, saved[c].v)
              /\ saved[c].v.display_name # "" => ContainerSettings'[c] = saved[c].v]_vars

\* C17 as stated: a Load that follows a successful Save of s yields s, also
\* when the display_name of s is empty.
C17_LoadYieldsSaved ==
    [][\A c \in UUIDs :
          (LoadedNow(c) /\ saved[c].some) => ContainerSettings'[c] = saved[c].v]_vars

\* C17 witness: settings with an empty display_name and both optional fields
\* set were saved and then loaded, and the loaded display_name is the
\* service's name.
C17_Witness ==
    \E c \in UUIDs :
        /\ settingsOp = [op |-> "load", id |-> c, res |-> "ok"]
        /\ saved[c].some
        /\ saved[c].v.display_name = ""
        /\ saved[c].v.launch_on_startup # "null"
        /\ saved[c].v.tags # {}
        /\ ContainerSettings[c] = MergedWithDefaults(c, saved[c].v)
        /\ ContainerSettings[c] # saved[c].v

\* a Delete of c was called at some point
DeleteCalled(c) == \E i \in DOMAIN hist[c] : hist[c][i].op = "delete"

\* a Start of c is at the creation of its Docker container
AtCreate(t, c) == arg[t] = c /\ pc[t] \in {"sd_create", "rd_create"}

\* a Docker container named after c exists
ContainerExists(c) == docker[c] # "none"

\* the lookup of a Start of c returns in this step and sends it to the creation
LookupSaysCreate(t, c) ==
    /\ arg[t] = c
    /\ pc[t] \in {"sd_lookup", "rd_lookup"}
    /\ pc'[t] \in {"sd_create", "rd_create"}

\* C18: as long as no Delete of the container is called, a Start goes from
\* its lookup to the creation only when no container of that name exists (it
\* reuses one that exists); a container is created only by a Start that its
\* lookup sent to the creation; a failing Start leaves an existing container
\* in place; at most one container of that name is ever created.
C18_CreateOnlyWhenNotFound ==
    [][\A c \in UUIDs :
          ~DeleteCalled(c)' =>
              /\ \A t \in Callers : LookupSaysCreate(t, c) => ~ContainerExists(c)
              /\ created'[c] # created[c] =>
                    \E t \in Callers : AtCreate(t, c) /\ pc'[t] # pc[t]
              /\ (StartFailsNow(c) /\ ContainerExists(c)) => ContainerExists(c)'
              /\ created'[c] <= 1]_vars

\* C18 witness: a Start failed after it created the Docker container, the
\* next Start found it and started it, and one container was created in all.
C18_Witness ==
    \E c \in UUIDs :
        /\ created[c] = 1
        /\ docker[c] = "running"
        /\ Len(hist[c]) = 6
        /\ \A i \in 3..6 : hist[c][i].op = "start"
        /\ hist[c][3].res = "call"
        /\ hist[c][4].res \notin {"call", "ok", "panic"}
        /\ hist[c][5].res = "call"
        /\ hist[c][6].res = "ok"
        /\ statusTrace[c] = <<InstanceStatusBuilding, InstanceStatusStarting,
                              InstanceStatusError, InstanceStatusBuilding,
                              InstanceStatusStarting, InstanceStatusRunning>>

\* the process-backend Start of t on c does its executable lookup in this step
ResolvesNow(t, c) == arg[t] = c /\ pc[t] = "m_prepare" /\ pc'[t] # pc[t]

\* a command is built for c in this step
CommandBuilt == Len(runs') = Len(runs) + 1

\* C19: when the process backend resolves the executable of c, a command is
\* built for ./<id> if that file exists, for ./<id>.sh only if ./<id> does
\* not exist and the .sh file does, and if neither exists Start fails and
\* no command is built or launched; every process that was launched runs
\* the command so chosen.
C19_ExecutablePreference ==
    [][\A c \in UUIDs :
          /\ \A t \in Callers :
                ResolvesNow(t, c) =>
                    /\ CommandBuilt =>
                          LET command == runs'[Len(runs')].command IN
                          /\ FileExists(c, "bin") => command = "./id"
                          /\ command = "./id.sh" =>
                                ~FileExists(c, "bin") /\ FileExists(c, "sh")
                          /\ command \in {"./id", "./id.sh"}
                    /\ (~FileExists(c, "bin") /\ ~FileExists(c, "sh")) =>
                          /\ ~CommandBuilt
                          /\ StartFailsNow(c)
                          /\ Cmd'[c] = Cmd[c]
          /\ \A r \in DOMAIN runs' :
                (runs'[r].c = c /\ runs'[r].kind = "proc") =>
                    /\ "bin" \in files[c] => runs'[r].command = "./id"
                    /\ runs'[r].command = "./id.sh" =>
                          "bin" \notin files[c] /\ "sh" \in files[c]
                    /\ files[c] # {}]_vars

\* C19 witness: both ./<id> and ./<id>.sh exist, Start returned ok and the
\* process it launched runs ./<id>.
C19_Witness ==
    \E c \in UUIDs :
        /\ FileExists(c, "bin") /\ FileExists(c, "sh")
        /\ Last(hist[c]) = Returned(c, "start", "ok")
        /\ Cmd[c] # 0
        /\ runs[Cmd[c]].state = "alive"
        /\ runs[Cmd[c]].command = "./id"

\* an Install whose source has none of the three prefixes returns in this step
InstallOtherNow == lastInstall' # lastInstall /\ lastInstall'.source = "other"

\* C20: an Install whose source has none of the prefixes marketplace:,
\* localstorage:, git: returns the unsupported-protocol error and changes
\* nothing: no directory, no registered container, no metadata, no status,
\* no Docker container, no process.
C20_UnsupportedProtocolNoEffect ==
    [][InstallOtherNow =>
          /\ lastInstall'.res = ErrProtocolNotSupported
          /\ UNCHANGED <<registry, dirs, backend, files, status, docker, Cmd,
                         runs, logs, hist, created>>]_vars

\* C20 witness: an Install with an unsupported prefix was the last Install
\* call, it returned the error, and no container or directory exists.
C20_Witness ==
    /\ lastInstall = [source |-> "other", res |-> ErrProtocolNotSupported]
    /\ registry = {}
    /\ dirs = {}
    /\ \A c \in UUIDs : backend[c] = "none"

\* Register or Unregister writes the subscriber table in this step
TableWritten == table' # table /\ ~crashed'

\* C21 as stated, for the subscriber table: the table is guarded, so no
\* Register or Unregister writes it while a SetStatus call is between the
\* beginning and the end of its range over it.
C21_TableGuarded == [][TableWritten => ~Dispatching]_vars

\* the request context of the connection of l is done
Cancelled(l) == conn[l] \in {"cancelled", "ev_cancelled", "ev_stuck"}

\* C22 as stated: after the request context of a connection is cancelled,
\* its listener is eventually no longer in the subscriber table.
C22_UnsubscribedAfterCancel ==
    \A l \in Subscribers : [](Cancelled(l) => <>(l \notin table))

\* C23 as stated: a dispatch never blocks its thread for ever: a SetStatus
\* call that began eventually returns, whatever the subscribers do.
C23_DispatchCompletes ==
    \A s \in Tasks : [](disp[s].st # "idle" => <>(disp[s].st = "idle"))

\* the SSE events of the bus events that l took from its channel
EventsOf(q) == [i \in DOMAIN q |-> BusEvent(q[i])]

\* the bus events l took from its channel, but for one it has not written yet
Taken(l) ==
    IF conn[l] \in {"ev_forwarding", "ev_stuck"}
    THEN SubSeq(got[l], 1, Len(got[l]) - 1) ELSE got[l]

\* C24 as stated: on every connection that emitted an event or took a bus
\* event from its channel, the events emitted are open, once and first,
\* followed by one event per bus event taken, in the order they were taken.
C24_OpenThenOnePerEvent ==
    \A l \in Subscribers :
        (emitted[l] # <<>> \/ Taken(l) # <<>>) =>
            emitted[l] = <<OpenEvent>> \o EventsOf(Taken(l))

\* phase p is recorded before position i of the phases
Before(p, i) == \E j \in 1..(i - 1) : phases[j] = p

\* C25: the router is created and started only after every dependency was
\* set up, and StartAll begins only after LoadAll returned.
C25_StartupOrder ==
    \A i \in DOMAIN phases :
        /\ phases[i] = "router_created" =>
              Before("dependencies_set_up", i) /\ Len(deps) = Len(Dependencies)
        /\ phases[i] = "router_started" =>
              Before("dependencies_set_up", i) /\ Before("router_created", i)
        /\ phases[i] = "start_all_begin" =>
              Before("load_all_begin", i) /\ Before("load_all_end", i)

\* C25 witness: the server is accepting requests and StartAll has begun,
\* after the dependencies, the router and LoadAll.
C25_Witness ==
    /\ mainPc = "serving"
    /\ loaderPc = "starting"
    /\ phases = <<"dependencies_set_up", "router_created", "router_started",
                  "load_all_begin", "load_all_end", "start_all_begin">>
    /\ Len(deps) = Len(Dependencies)

\* CheckForUpdates returns in this step
CheckedNow == checkOp'.seq # checkOp.seq

\* C26: a CheckForUpdates that returns an error leaves Update unchanged; on a
\* Dockerfile-based service it returns no error and leaves Update unchanged;
\* on an image-based service, when it returns no error, Update is cleared if
\* the id of the image under the image name equals the image id of the
\* container, and is {container's image id, image's id} if they differ.
C26_UpdateSetWhenIdsDiffer ==
    [][CheckedNow =>
          /\ checkOp'.res # "ok" => Update' = Update
          /\ method = "dockerfile" => checkOp'.res = "ok" /\ Update' = Update
          /\ (method = "image" /\ checkOp'.res = "ok") =>
                /\ containerImage # 0 /\ localImage' # 0
                /\ localImage' = containerImage => Update' = NoUpdate
                /\ localImage' # containerImage =>
                      Update' = [CurrentVersion |-> containerImage,
                                 LatestVersion |-> localImage']]_vars

\* C26 witness: an image-based instance was checked without error after a new
\* image was published, and Update holds the container's image id and the
\* new one.
C26_Witness ==
    /\ method = "image"
    /\ checkOp.res = "ok"
    /\ containerImage # 0
    /\ localImage = remoteImage
    /\ localImage # containerImage
    /\ Update = [CurrentVersion |-> containerImage, LatestVersion |-> localImage]

\* C27: whenever GetAll was the last call, it returned without error exactly
\* the valid keys of the authorized-keys file, in the order of the file: as
\* many as the file began with plus the keys added minus the keys removed,
\* no key for a line that is not a valid key, and none if the file is missing
C27_GetAllReturnsValidKeys ==
    sshOp.op = "GetAll" =>
        /\ sshOp.res = "ok"
        /\ Len(sshKeys) = sshCount
        /\ \A i \in 1..Len(sshKeys) : sshKeys[i] \in KeyIds
        /\ Len(sshKeys) =
              Cardinality({i \in 1..Len(authorizedKeys.lines) :
                             authorizedKeys.lines[i] # InvalidLine})
        /\ ~authorizedKeys.exists => sshKeys = <<>>

\* C27 witness: GetAll returned three keys of a file that holds, beside them,
\* a line that is not a key, after a key was removed and two were added
C27_Witness ==
    /\ sshOp.op = "GetAll"
    /\ Len(sshKeys) = 3
    /\ sshKeys[1] = 2
    /\ \E i \in 1..Len(authorizedKeys.lines) : authorizedKeys.lines[i] = InvalidLine

\* the result of the command that returned last on c
LastResult(c) == hist'[c][Len(hist'[c])].res

\* C28: a Delete of a Docker-backed container deals with the Docker container
\* before the directory and the registry entry.  It never goes to repo.Delete
\* straight from its precondition check; when the lookup or the removal fails
\* it returns the error at once, and that step leaves the registry entry, the
\* directory and the Docker container as they are; it goes on to repo.Delete
\* only with the Docker container removed or not found; and the registry
\* entry is removed only by a Delete that has got to repo.Delete and returns ok.
C28_DockerRemovedBeforeRegistry ==
    [][/\ \A t \in Callers :
          /\ (pc[t] = "idle" /\ pc'[t] = "del_repo") => ~UseDocker(arg'[t])
          /\ (pc[t] = "del_docker" /\ pc'[t] = "idle") =>
                /\ LastResult(arg[t]) = ErrRunner
                /\ UNCHANGED <<registry, dirs, docker>>
          /\ (pc[t] = "del_docker" /\ pc'[t] \notin {"del_docker", "idle"}) =>
                /\ pc'[t] = "del_repo"
                /\ docker'[arg[t]] = "none"
                /\ UNCHANGED <<registry, dirs>>
          /\ (pc[t] = "del_repo" /\ pc'[t] = "idle" /\ arg[t] \in registry
                 /\ arg[t] \notin registry') => LastResult(arg[t]) = "ok"
       /\ (registry' # registry /\ registry' \subseteq registry) =>
             \E u \in Callers : pc[u] = "del_repo" /\ pc'[u] = "idle"
      ]_vars

\* C28 witness: a Docker container was created for c, c is neither running
\* nor starting, and a Delete removed the Docker container, then the
\* directory and the registry entry, and returned ok
C28_Witness ==
    \E c \in UUIDs :
        /\ created[c] = 1
        /\ docker[c] = "none"
        /\ c \notin registry
        /\ c \notin dirs
        /\ Len(hist[c]) > 0
        /\ hist[c][Len(hist[c])] = Returned(c, "delete", "ok")

\* C29: a Start called on a registered container whose status is error is
\* accepted exactly as one called on a container whose status is off: it is
\* not rejected as already running, it writes the "Starting instance..."
\* line and goes on to the runner of the container's backend
C29_StartAcceptedFromError ==
    [][\A c \in UUIDs :
        (c \in registry /\ CalledNow(c, "start")
           /\ status[c] \in {InstanceStatusOff, InstanceStatusError})
        => /\ ~RejectedNow(c, "start", ErrInstanceAlreadyRunning)
           /\ \E t \in Callers :
                 /\ pc[t] = "idle"
                 /\ pc'[t] = StartEntry(c)
                 /\ arg'[t] = c
           /\ logs'[c] = Append(logs[c], LogLine(LogKindVertexOut, "Starting instance..."))
           /\ status' = status]_vars

\* C29 witness: a Start of c failed in the runner and left the status error;
\* the next Start of c, called after that one returned, was accepted and
\* brought c to running
C29_Witness ==
    \E c \in UUIDs :
        /\ Len(hist[c]) = 6
        /\ hist[c][3] = Called(c, "start")
        /\ hist[c][4] = Returned(c, "start", ErrRunner)
        /\ hist[c][5] = Called(c, "start")
        /\ hist[c][6] = Returned(c, "start", "ok")
        /\ \E i \in 1..Len(statusTrace[c]) : statusTrace[c][i] = InstanceStatusError
        /\ status[c] = InstanceStatusRunning

\* C30: when the build or pull of RunnerDockerRepository.Start fails (onErr is
\* invoked, or the call does not go on), onErr was invoked exactly once with
\* the error, Start returns the error in that step, and the step neither
\* looks up, creates or starts a Docker container nor spawns a log-tail or
\* wait task
C30_DockerStartFailsFast ==
    [][\A t \in Callers :
          LET c == arg[t] IN
          (pc[t] = "rd_build" /\ pc'[t] # "rd_build"
             /\ (pc'[t] # "rd_lookup" \/ logs'[c] # logs[c]))
          => /\ pc'[t] = "idle"
             /\ LastResult(c) = ErrRunner
             /\ logs'[c] = Append(logs[c], LogLine(LogKindVertexErr, ErrRunner))
             /\ UNCHANGED <<docker, created, runs, Cmd>>
      ]_vars

\* C30 witness: the only Start of a container of the Docker runner failed in
\* the build: it returned the error, the last log line is the error, no
\* Docker container was ever created and no task was spawned
C30_Witness ==
    \E c \in UUIDs :
        /\ backend[c] = BackendRunner
        /\ Len(hist[c]) = 4
        /\ hist[c][4] = Returned(c, "start", ErrRunner)
        /\ statusTrace[c] = <<InstanceStatusBuilding, InstanceStatusError>>
        /\ Len(logs[c]) > 0
        /\ logs[c][Len(logs[c])] = LogLine(LogKindVertexErr, ErrRunner)
        /\ created[c] = 0
        /\ docker[c] = "none"
        /\ runs = <<>>

\* in this step Push is called with the id c
PushCalledNow(c) == pushBudget' = pushBudget - 1 /\ pushOp'.id = c

\* C31: Push returns nothing to its caller.  Called for an id without a
\* logger it logs the not-found error and changes no ring buffer, no file and
\* no file handle; called for a logger whose file cannot be written it logs
\* the write error, keeps the line in the ring buffer and changes no file.
C31_PushSurfacesNoError ==
    [][\A c \in UUIDs :
        PushCalledNow(c) =>
          /\ ~loggers[c].present =>
                /\ pushOp'.logged = ErrLoggerNotFound
                /\ UNCHANGED <<loggers, disk, handles, pushed>>
          /\ (loggers[c].present /\ ~handles[loggers[c].file].open) =>
                /\ pushOp'.logged = ErrFileClosed
                /\ UNCHANGED <<disk, handles>>
                /\ loggers'[c].buffer = Appended(loggers[c].buffer, Last(pushed'[c]))
          /\ (loggers[c].present /\ handles[loggers[c].file].open) =>
                pushOp'.logged = ""]_vars

\* C31 witness: a line was pushed to a logger whose file had been closed; the
\* write error was logged, the line is in the ring buffer and in no file
C31_Witness ==
    \E c \in UUIDs :
        /\ pushOp = [id |-> c, logged |-> ErrFileClosed]
        /\ loggers[c].present
        /\ Len(loggers[c].buffer) = 1
        /\ \A d \in Days : disk[<<c, d>>] = <<>>

\* the child process of run r has exited
ChildExited(r) ==
    r \in DOMAIN runs /\ runs[r].kind = "proc" /\ runs[r].state = "exited"

\* the wait task of run r has called SetStatus(off)
WaitDone(r) == r \in DOMAIN runs /\ runs[r].wait = "done"

\* C32 as stated: whenever the child process of a run has exited, the wait
\* task spawned for that run eventually calls SetStatus(off)
C32_ExitLeadsToOff ==
    \A r \in RunIds : [](ChildExited(r) => <>WaitDone(r))

\* the host port the claim gives to a declared port: the value of the
\* port-typed env variable whose default is the declared host port, or the
\* declared host port when there is no such env definition
HostPortOf(in) ==
    LET out == DockerPorts[in] IN
    IF Matching(out) = {} THEN out
    ELSE EnvValue(EnvDefinitions[FirstMatching(out)].Name)

\* C33 as stated: once the port options are computed, every declared port is
\* bound, to the value of its port-typed env variable if it has one and to
\* the declared host port otherwise, and nothing else is bound
C33_EveryDeclaredPortBound ==
    portBindings.done =>
        portBindings.all =
            {[host |-> HostPortOf(in), container |-> in] : in \in DOMAIN DockerPorts}

\* a child process launched for c is still running
ChildAlive(c) ==
    \E r \in DOMAIN runs : runs[r].c = c /\ runs[r].kind = "proc" /\ runs[r].state = "alive"

\* C34 as stated: for a process-backed container, whenever the status is off
\* no child process launched for it is still alive
C34_OffMeansNoChild ==
    \A c \in UUIDs :
        (backend[c] = BackendManual /\ status[c] = InstanceStatusOff) => ~ChildAlive(c)

\* in this step the wait task of run r reports an exit: it calls SetStatus(off)
ReportsExit(r) ==
    /\ runs[r].wait \in {"pending", "errored"}
    /\ runs'[r].wait = "done"

\* a workload of the container of run r that was started after r is running
NewerRunning(r) ==
    \E n \in DOMAIN runs :
        n > r /\ runs[n].c = runs[r].c /\ runs[n].state = "alive"

\* C35 as stated: the wait task of a run never sets the status to off while
\* a workload of the same container that was started later is running
C35_WaitReportsOwnRun ==
    [][\A r \in DOMAIN runs : ReportsExit(r) => ~NewerRunning(r)]_vars

\* in this step the handler of l closes its channel
ClosesNow(l) == conn[l] = "unregistered" /\ conn'[l] = "closed" /\ ~crashed'

\* C36 as stated: when the handler of a subscriber closes its channel, no
\* SetStatus call is blocked in a send on that channel, and no send on a
\* channel begins after it was closed
C36_NoSendOnClosedChannel ==
    [][\A l \in Subscribers :
          /\ ClosesNow(l) => sendq[l] = <<>>
          /\ conn[l] = "closed" => sendq'[l] = <<>>]_vars

\* the files of c that are open
OpenFiles(c) == {h \in DOMAIN handles : handles[h].id = c /\ handles[h].open}

\* C37 as stated: for every container id at most one file opened by Open is
\* open at any time
C37_OneOpenFilePerId ==
    \A c \in UUIDs : Cardinality(OpenFiles(c)) <= 1

\* the calls of the settings service that persist the settings
PersistingOps ==
    {"save", "set_launch_on_startup", "set_display_name", "set_databases",
     "set_version", "set_tags"}

\* C38 as stated: a Save or a setter that fails to persist leaves the
\* settings of the container in memory as they were before the call
C38_FailedSaveKeepsMemory ==
    [][\A c \in UUIDs :
        (settingsOp'.op \in PersistingOps /\ settingsOp'.id = c /\ settingsOp'.res = "err")
        => ContainerSettings'[c] = ContainerSettings[c]]_vars

\* in this step the Stop of caller t runs stopManually
StopsManuallyNow(t) ==
    /\ pc[t] = "stop_runner"
    /\ pc'[t] = "idle"
    /\ ~UseDocker(arg[t])

\* another Stop of the same container has passed the running check as well
OtherStopPassed(t) ==
    \E u \in Callers \ {t} : pc[u] = "stop_runner" /\ arg[u] = arg[t]

\* C39 as stated: of two concurrent Stop commands on a process-backed
\* container only one gets past the running check to signal the child, and
\* stopManually never uses a process handle that was cleared
C39_OneStopSignals ==
    [][\A t \in Callers :
          StopsManuallyNow(t) => (~OtherStopPassed(t) /\ Cmd[arg[t]] # 0)]_vars

\* the positions of a command from which the status of its container cannot
\* change any more when the container is in the state described by Stranded
StopOrIdle == {"idle", "stop_runner"}

\* c is registered with a status that counts as running, its Docker container
\* is gone, no wait task is left to report an exit, and no Start or Delete
\* of c is under way
Stranded(c) ==
    /\ c \in registry
    /\ UseDocker(c)
    /\ IsRunning(status[c])
    /\ docker[c] = "none"
    /\ \A r \in DOMAIN runs : runs[r].c = c => runs[r].wait # "pending"
    /\ \A t \in Callers : arg[t] = c => pc[t] \in StopOrIdle

\* no command and no runner event leads out of Stranded: Start and Delete are
\* refused because the status counts as running, Stop fails with
\* ErrContainerNotFound and leaves the status as it is
StrandedForEver ==
    [][\A c \in UUIDs : Stranded(c) => Stranded(c)']_vars

\* C40 as stated: every registered container can still reach the status off
\* and be deleted; in particular no reachable state is Stranded, from which
\* (StrandedForEver) the status off is never reached
C40_AlwaysDeletable ==
    \A c \in UUIDs : ~Stranded(c)

====
